---- MODULE Spec2Model ----
(***************************************************************************)
(* Model of the ingestion pipeline of Oportunidade_investimentos:          *)
(*   data_collector.py  YahooFinanceCollector + executar_coleta_completa   *)
(*   data_loader.py     IndiceManager + RepositorioSQLServer               *)
(*   app.py             the ORM schema of the five tables                  *)
(* The store is the SQL Server database: Indices and SegmentosInvestimento *)
(* carry a unique column (app.py:39, app.py:65) and are sets of rows with  *)
(* an identity key; HistoricoPrecos and IndicesSegmentos carry no unique   *)
(* constraint besides their identity key and are bags of rows.             *)
(***************************************************************************)
EXTENDS Integers, Sequences, FiniteSets, Bags, TLC

\* ------------------------------------------------------------------ bounds
MaxBatch == 2        \* rows of one downloaded DataFrame
MaxCrashes == 1      \* interruptions of one full-refresh run
MaxBars == 3         \* stored price rows of one instrument under analysis
MaxChamadas == 2     \* get-or-create calls of one concurrent writer

\* --------------------------------------------------------------- constants
NULL == -1           \* Python None / SQL NULL in a numeric column
PesoPadrao == 100    \* default Peso of a link
Dias == 365          \* dias of obter_dados_segmento: the window, in days

Tickers == {"AAA", "BBB"}
Dates == {1, 2}      \* trade dates

\* Cells of a provider DataFrame, written as the provider sent them; the
\* handlers convert them with float()/int().  "nan" is pandas' missing value,
\* "inf" a float that int() refuses (OverflowError).
CellsNumericas == {"5", "99", "100", "110"}

\* int(cell) / float(cell) of a cell the conversion accepts
Numero(cell) ==
    CASE cell = "5" -> 5
      [] cell = "99" -> 99
      [] cell = "100" -> 100
      [] cell = "110" -> 110

\* pd.notna(cell)
notna(cell) == cell # "nan"

\* the conversion raises (ValueError / OverflowError)
Levanta(cell) == cell \notin CellsNumericas

\* rows yfinance's Ticker.history() yields after reset_index(): Date, Close, Volume
\* (Open/High/Low are converted exactly like Close and are left out)
RawBars ==
    {[Date |-> d, Close |-> k[1], Volume |-> k[2]] :
        d \in Dates, k \in {<<"100", "5">>, <<"110", "nan">>, <<"100", "inf">>}}

RECURSIVE SeqsAte(_, _)
SeqsAte(S, n) ==
    IF n = 0 THEN {<<>>}
    ELSE LET menor == SeqsAte(S, n - 1)
         IN  menor \cup {Append(s, x) : s \in {t \in menor : Len(t) = n - 1}, x \in S}

\* the provider yields a history in date order (a date may come twice)
EmOrdem(s) == \A i \in 1..(Len(s) - 1) : s[i].Date <= s[i + 1].Date

DataFrames == {s \in SeqsAte(RawBars, MaxBatch) : EmOrdem(s)}

\* ------------------------------------------- IndiceManager.baixar_dados_indices
\* the tickers of IndiceManager.tickers_info: the loader tracks one of the
\* collector's two tickers
TickersInfo == {"AAA"}

\* a row of the frame yf.download() yields for one ticker, after the renames;
\* the provider's Adj Close of an index equals its Close
LinhaIndice(ticker, descricao, pais, bar) ==
    [Ticker |-> ticker, Descricao |-> descricao, Pais |-> pais,
     DataQuotacao |-> bar.Date, Fechamento |-> bar.Close,
     FechamentoAjustado |-> bar.Close, Volume |-> bar.Volume]

FrameDoTicker(ticker, descricao, pais, bars) ==
    [i \in 1..Len(bars) |-> LinhaIndice(ticker, descricao, pais, bars[i])]

\* the frames baixar_dados_indices returns: a ticker without data contributes
\* no frame, and with no frame at all the result is None and main() returns
FramesDeIndices(descricao, pais) ==
    {FrameDoTicker(t, descricao, pais, a) :
        t \in TickersInfo, a \in DataFrames \ {<<>>}}

VARIABLES
    Indices,                \* table Indices: rows [IdIndice, Ticker, Descricao, Pais]
    SegmentosInvestimento,  \* table SegmentosInvestimento: rows [IdSegmento, Nome, Descricao]
    IndicesSegmentos,       \* table IndicesSegmentos: bag of [IdIndice, IdSegmento, Peso]
    HistoricoPrecos,        \* table HistoricoPrecos: bag of price rows
    pc,                     \* position of the calling script
    id_indice,              \* the IdIndice the caller holds
    df,                     \* the DataFrame the caller holds
    res,                    \* outcome of the last call
    segmentos_ids,          \* executar_coleta_completa: ids of the segments created
    idx,                    \* executar_coleta_completa: position in the catalog
    provedor,               \* what the provider serves for each ticker
    perdeu,                 \* the connection to the store failed in this run
    crashes,                \* where the run was interrupted so far
    sleeps,                 \* time.sleep(1) calls of the run so far
    OportunidadesInvestimento,  \* table OportunidadesInvestimento
    metricas,               \* what the last calcular_metricas_segmento returned
    oportunidades,          \* what the last gerar_oportunidades returned
    escritores,             \* concurrent writers: the position of each in its call
    unico                   \* the store enforces the unique keys the ORM declares

tables == <<Indices, SegmentosInvestimento, IndicesSegmentos, HistoricoPrecos>>
\* what the ingestion never writes: the provider's data, the opportunities
\* table and the results of the analysis service
concorrencia == <<escritores, unico>>
fixos == <<provedor, OportunidadesInvestimento, metricas, oportunidades, concorrencia>>
runVars == <<segmentos_ids, idx, perdeu, crashes, sleeps, fixos>>
vars == <<Indices, SegmentosInvestimento, IndicesSegmentos, HistoricoPrecos,
          pc, id_indice, df, res, segmentos_ids, idx, provedor, perdeu, crashes,
          sleeps, OportunidadesInvestimento, metricas, oportunidades,
          escritores, unico>>

\* ------------------------------------------------------------- the store
\* mutant: the WHERE clause compares the date column with a value no stored
\* date equals, so the existence check finds nothing
ContaHistoricoNuncaAcha(tab, id, data) == 0

\* SELECT COUNT(*) FROM HistoricoPrecos WHERE IdIndice = :id AND DataQuotacao = :data
ContaHistorico(tab, id, data) ==
    LET S == {r \in BagToSet(tab) : r.IdIndice = id /\ r.DataQuotacao = data}
    IN  BagCardinality([r \in S |-> CopiesIn(r, tab)])

\* INSERT INTO HistoricoPrecos ... VALUES (...)
InsereHistorico(tab, linha) == tab (+) SetToBag({linha})

\* SELECT IdIndice FROM Indices WHERE Ticker = :ticker  (the set of matching ids)
IdsDoTicker(ind, ticker) == {r.IdIndice : r \in {x \in ind : x.Ticker = ticker}}

\* the identity column of a table without deletes
ProximoId(ids) == IF ids = {} THEN 1 ELSE (CHOOSE m \in ids : \A x \in ids : x <= m) + 1

\* res.repetida: the call ingested again the DataFrame the call before it ingested
\* res.chave, res.info: the key and the other arguments of a get-or-create call
NoRes == [op |-> "none", ret |-> NULL, inseridos |-> 0, duplicados |-> 0,
          raised |-> FALSE, repetida |-> FALSE, chave |-> "", info |-> <<>>]

\* ------------------------------------------------------- float arithmetic
\* A Python float of the analysis: a fraction n/d in lowest terms (d > 0),
\* or one of the IEEE values nan and inf the division by zero yields.  The
\* closes are never negative, so -inf does not arise.
RECURSIVE MDC(_, _)
MDC(a, b) == IF b = 0 THEN a ELSE MDC(b, a % b)

Modulo(n) == IF n < 0 THEN 0 - n ELSE n

Frac(n, d) ==
    LET g == MDC(Modulo(n), d)
    IN  [k |-> "num", n |-> n \div g, d |-> d \div g]

NaN == [k |-> "nan", n |-> 0, d |-> 1]
Inf == [k |-> "inf", n |-> 0, d |-> 1]

EhNum(x) == x.k = "num"

\* mutant: the comparison is x >= c
MaiorOuIgual(x, c) == x.k = "inf" \/ (x.k = "num" /\ x.n >= c * x.d)

\* x > c and x < c for an integer c: every comparison with nan is False
Maior(x, c) == x.k = "inf" \/ (x.k = "num" /\ x.n > c * x.d)
Menor(x, c) == x.k = "num" /\ x.n < c * x.d

\* x * a / b for a float x and the decimal constant a/b
Vezes(x, a, b) == IF EhNum(x) THEN Frac(x.n * a, x.d * b) ELSE x

\* abs(x)
Abs(x) == IF EhNum(x) THEN Frac(Modulo(x.n), x.d) ELSE x

\* x + y, over the least common denominator
Soma(x, y) ==
    LET l == (x.d \div MDC(x.d, y.d)) * y.d
    IN  Frac(x.n * (l \div x.d) + y.n * (l \div y.d), l)
Quadrado(x) == Frac(x.n * x.n, x.d * x.d)

\* calcular_metricas_segmento returned None
SemMetricas ==
    [none |-> TRUE, RetornoMedio |-> NaN, Variancia |-> NaN,
     PrecoMaximo |-> 0, PrecoMinimo |-> 0, VolumeTotal |-> 0]

\* ------------------------------------- YahooFinanceCollector.salvar_historico_precos
\* float(row[c]) if pd.notna(row[c]) else None
FloatOuNone(cell) == IF notna(cell) THEN Numero(cell) ELSE NULL

\* int(row['Volume']) if pd.notna(row['Volume']) else 0
IntOuZero(cell) == IF notna(cell) THEN Numero(cell) ELSE 0

\* building the INSERT parameters raises inside the row's try
ParametrosLevantam(row) ==
    \/ (notna(row.Close) /\ Levanta(row.Close))
    \/ (notna(row.Volume) /\ Levanta(row.Volume))

LinhaColetor(id, row) ==
    [IdIndice |-> id, DataQuotacao |-> row.Date,
     Fechamento |-> FloatOuNone(row.Close),
     FechamentoAjustado |-> FloatOuNone(row.Close),
     Volume |-> IntOuZero(row.Volume)]

\* mutant: a row found stored is skipped without being counted
PassoSalvarNaoConta(acc, id, row) ==
    IF ContaHistorico(acc.tab, id, row.Date) > 0
    THEN acc
    ELSE IF ParametrosLevantam(row)
         THEN acc
         ELSE [acc EXCEPT !.tab = InsereHistorico(@, LinhaColetor(id, row)),
                          !.inseridos = @ + 1]

\* mutant: a row found stored is overwritten with the re-observed values
PassoSalvarAtualiza(acc, id, row) ==
    IF ContaHistorico(acc.tab, id, row.Date) > 0
    THEN IF ParametrosLevantam(row)
         THEN [acc EXCEPT !.duplicados = @ + 1]
         ELSE [acc EXCEPT
                 !.tab = InsereHistorico(
                     [r \in {x \in BagToSet(@) :
                                ~(x.IdIndice = id /\ x.DataQuotacao = row.Date)}
                        |-> CopiesIn(r, @)],
                     LinhaColetor(id, row)),
                 !.duplicados = @ + 1]
    ELSE IF ParametrosLevantam(row)
         THEN acc
         ELSE [acc EXCEPT !.tab = InsereHistorico(@, LinhaColetor(id, row)),
                          !.inseridos = @ + 1]

\* one iteration of the for loop on the open connection; acc.tab is the table
\* as the connection's transaction sees it
PassoSalvar(acc, id, row) ==
    IF ContaHistorico(acc.tab, id, row.Date) > 0
    THEN [acc EXCEPT !.duplicados = @ + 1]
    ELSE IF ParametrosLevantam(row)
         THEN acc
         ELSE [acc EXCEPT !.tab = InsereHistorico(@, LinhaColetor(id, row)),
                          !.inseridos = @ + 1]

RECURSIVE LoopSalvar(_, _, _)
LoopSalvar(acc, id, rows) ==
    IF rows = <<>> THEN acc
    ELSE LoopSalvar(PassoSalvar(acc, id, Head(rows)), id, Tail(rows))

\* The whole call.  conexao = FALSE: the connection to the store is lost at
\* engine.connect() or at some statement of the loop.  A lost connection fails
\* every later statement too (each caught by the row's except), the commit
\* raises, nothing of the transaction is committed and the outer except
\* re-raises: whatever the statement, the call ends the same way.
salvar_historico_precos_resultado(tab, id, rows, conexao) ==
    IF rows = <<>>
    THEN [tab |-> tab, inseridos |-> 0, duplicados |-> 0, raised |-> FALSE]
    ELSE IF ~conexao
         THEN [tab |-> tab, inseridos |-> 0, duplicados |-> 0, raised |-> TRUE]
         ELSE LET fim == LoopSalvar([tab |-> tab, inseridos |-> 0, duplicados |-> 0],
                                    id, rows)
              IN  [tab |-> fim.tab, inseridos |-> fim.inseridos,
                   duplicados |-> fim.duplicados, raised |-> FALSE]

\* ---------------------------------- RepositorioSQLServer.insere_historico_precos
\* indices_map.get(row['Ticker']); 0 stands for None
IdDoMapa(ind, ticker) ==
    IF IdsDoTicker(ind, ticker) = {} THEN 0
    ELSE CHOOSE i \in IdsDoTicker(ind, ticker) : TRUE

\* int(row['Volume']) raises, or the driver rejects a cell that is no number
LinhaLevanta(row) ==
    \/ Levanta(row.Volume)
    \/ Levanta(row.Fechamento)
    \/ Levanta(row.FechamentoAjustado)

LinhaLoader(id, row) ==
    [IdIndice |-> id, DataQuotacao |-> row.DataQuotacao,
     Fechamento |-> Numero(row.Fechamento),
     FechamentoAjustado |-> Numero(row.FechamentoAjustado),
     Volume |-> Numero(row.Volume)]

\* one iteration: IF NOT EXISTS (...) BEGIN INSERT ... END, then cursor.rowcount
PassoInsere(acc, ind, row) ==
    LET id == IdDoMapa(ind, row.Ticker)
    IN  IF id = 0 THEN acc
        ELSE IF LinhaLevanta(row) THEN acc
        ELSE IF ContaHistorico(acc.tab, id, row.DataQuotacao) = 0
             THEN [acc EXCEPT !.tab = InsereHistorico(@, LinhaLoader(id, row)),
                              !.inseridos = @ + 1]
             ELSE [acc EXCEPT !.duplicados = @ + 1]

RECURSIVE LoopInsere(_, _, _)
LoopInsere(acc, ind, rows) ==
    IF rows = <<>> THEN acc
    ELSE LoopInsere(PassoInsere(acc, ind, Head(rows)), ind, Tail(rows))

\* The whole call.  conexao = FALSE: get_connection() raises, or the connection
\* is lost in the loop (each statement's error is caught by the row's except)
\* and conn.commit() raises: nothing is committed and the error leaves the call.
insere_historico_precos_resultado(tab, ind, rows, conexao) ==
    IF ~conexao
    THEN [tab |-> tab, inseridos |-> 0, duplicados |-> 0, raised |-> TRUE]
    ELSE LET fim == LoopInsere([tab |-> tab, inseridos |-> 0, duplicados |-> 0],
                               ind, rows)
         IN  [tab |-> fim.tab, inseridos |-> fim.inseridos,
              duplicados |-> fim.duplicados, raised |-> FALSE]

\* -------------------------------- RepositorioSQLServer.insere_ou_atualiza_indice
\* IF NOT EXISTS (SELECT 1 FROM Indices WHERE Ticker = ?) INSERT ..., per row of
\* df[['Ticker','Descricao','Pais']].drop_duplicates()
PassoIndice(ind, row) ==
    IF IdsDoTicker(ind, row.Ticker) # {} THEN ind
    ELSE ind \cup {[IdIndice |-> ProximoId({r.IdIndice : r \in ind}),
                    Ticker |-> row.Ticker, Descricao |-> row.Descricao,
                    Pais |-> row.Pais]}

RECURSIVE LoopIndices(_, _)
LoopIndices(ind, rows) ==
    IF rows = <<>> THEN ind
    ELSE LoopIndices(PassoIndice(ind, Head(rows)), Tail(rows))

\* ------------------------------------------ YahooFinanceCollector.adicionar_indice
ResChamada(op, chave, info) == [NoRes EXCEPT !.op = op, !.chave = chave, !.info = info]

\* mutant: a ticker found stored gets the description and country of the call
adicionar_indice_atualiza(ind, ticker, descricao, pais, conexao) ==
    LET ids == IdsDoTicker(ind, ticker)
        id == IF ids = {} THEN ProximoId({r.IdIndice : r \in ind})
              ELSE CHOOSE i \in ids : TRUE
    IN  IF ~conexao THEN [tab |-> ind, ret |-> NULL, raised |-> TRUE]
        ELSE [tab |-> {r \in ind : r.Ticker # ticker} \cup
                        {[IdIndice |-> id, Ticker |-> ticker,
                          Descricao |-> descricao, Pais |-> pais]},
              ret |-> id, raised |-> FALSE]

\* mutant: the INSERT is issued without the SELECT that looks the ticker up
adicionar_indice_sempre_insere(ind, ticker, descricao, pais, conexao) ==
    LET novo == ProximoId({x.IdIndice : x \in ind})
    IN  IF ~conexao THEN [tab |-> ind, ret |-> NULL, raised |-> TRUE]
        ELSE [tab |-> ind \cup {[IdIndice |-> novo, Ticker |-> ticker,
                                 Descricao |-> descricao, Pais |-> pais]},
              ret |-> novo, raised |-> FALSE]

\* The whole call: the table after it, the id it returns, whether it raised.
\* conexao = FALSE: engine.connect() or a statement fails, the except logs and
\* re-raises, nothing is committed
adicionar_indice_resultado(ind, ticker, descricao, pais, conexao) ==
    LET ids == IdsDoTicker(ind, ticker)
        novo == ProximoId({x.IdIndice : x \in ind})
    IN  IF ~conexao THEN [tab |-> ind, ret |-> NULL, raised |-> TRUE]
        ELSE IF ids # {}
             THEN [tab |-> ind, ret |-> CHOOSE i \in ids : TRUE, raised |-> FALSE]
             ELSE [tab |-> ind \cup {[IdIndice |-> novo, Ticker |-> ticker,
                                      Descricao |-> descricao, Pais |-> pais]},
                   ret |-> novo, raised |-> FALSE]

adicionar_indice(ticker, descricao, pais, conexao) ==
    /\ pc = "idle"
    /\ LET r == adicionar_indice_resultado(Indices, ticker, descricao, pais, conexao)
       IN  /\ Indices' = r.tab
           /\ res' = [ResChamada("adicionar_indice", ticker, <<descricao, pais>>)
                        EXCEPT !.ret = r.ret, !.raised = r.raised]
    /\ UNCHANGED <<SegmentosInvestimento, IndicesSegmentos, HistoricoPrecos,
                   pc, id_indice, df>>
    /\ UNCHANGED runVars

\* -------------------------------------------- YahooFinanceCollector.criar_segmento
\* SELECT IdSegmento FROM SegmentosInvestimento WHERE Nome = :nome
IdsDoNome(seg, nome) == {r.IdSegmento : r \in {x \in seg : x.Nome = nome}}

\* mutant: a name found stored gets the description of the call
criar_segmento_atualiza(seg, nome, descricao, conexao) ==
    LET ids == IdsDoNome(seg, nome)
        id == IF ids = {} THEN ProximoId({r.IdSegmento : r \in seg})
              ELSE CHOOSE i \in ids : TRUE
    IN  IF ~conexao THEN [tab |-> seg, ret |-> NULL, raised |-> TRUE]
        ELSE [tab |-> {r \in seg : r.Nome # nome} \cup
                        {[IdSegmento |-> id, Nome |-> nome, Descricao |-> descricao]},
              ret |-> id, raised |-> FALSE]

\* The whole call: the table after it, the id it returns, whether it raised
criar_segmento_resultado(seg, nome, descricao, conexao) ==
    LET ids == IdsDoNome(seg, nome)
        novo == ProximoId({x.IdSegmento : x \in seg})
    IN  IF ~conexao THEN [tab |-> seg, ret |-> NULL, raised |-> TRUE]
        ELSE IF ids # {}
             THEN [tab |-> seg, ret |-> CHOOSE i \in ids : TRUE, raised |-> FALSE]
             ELSE [tab |-> seg \cup {[IdSegmento |-> novo, Nome |-> nome,
                                      Descricao |-> descricao]},
                   ret |-> novo, raised |-> FALSE]

criar_segmento(nome, descricao, conexao) ==
    /\ pc = "idle"
    /\ LET r == criar_segmento_resultado(SegmentosInvestimento, nome, descricao, conexao)
       IN  /\ SegmentosInvestimento' = r.tab
           /\ res' = [ResChamada("criar_segmento", nome, <<descricao>>)
                        EXCEPT !.ret = r.ret, !.raised = r.raised]
    /\ UNCHANGED <<Indices, IndicesSegmentos, HistoricoPrecos, pc, id_indice, df>>
    /\ UNCHANGED runVars

\* ---------------------------------- YahooFinanceCollector.associar_indice_segmento
\* SELECT COUNT(*) FROM IndicesSegmentos WHERE IdIndice = :i AND IdSegmento = :s
ContaAssociacao(tab, id, id_segmento) ==
    LET S == {r \in BagToSet(tab) : r.IdIndice = id /\ r.IdSegmento = id_segmento}
    IN  BagCardinality([r \in S |-> CopiesIn(r, tab)])

\* the foreign key of IndicesSegmentos.IdSegmento (app.py:75)
SegmentoExiste(seg, id_segmento) == \E r \in seg : r.IdSegmento = id_segmento

\* mutant: the INSERT is issued without the existence check
associar_sem_verificar(tab, ind, seg, ticker, id_segmento, peso, conexao) ==
    LET ids == IdsDoTicker(ind, ticker)
        id == CHOOSE i \in ids : TRUE
    IN  IF ~conexao \/ ids = {} THEN tab
        ELSE IF ~SegmentoExiste(seg, id_segmento) THEN tab
        ELSE tab (+) SetToBag({[IdIndice |-> id, IdSegmento |-> id_segmento,
                                Peso |-> peso]})

\* the table after the call: every failure (no connection, ticker unknown, the
\* foreign key refusing the INSERT) is logged by the except and not re-raised
associar_resultado(tab, ind, seg, ticker, id_segmento, peso, conexao) ==
    LET ids == IdsDoTicker(ind, ticker)
        id == CHOOSE i \in ids : TRUE
    IN  IF ~conexao \/ ids = {} THEN tab
        ELSE IF ContaAssociacao(tab, id, id_segmento) > 0 THEN tab
        ELSE IF ~SegmentoExiste(seg, id_segmento) THEN tab
        ELSE tab (+) SetToBag({[IdIndice |-> id, IdSegmento |-> id_segmento,
                                Peso |-> peso]})

associar_indice_segmento(ticker, id_segmento, peso, conexao) ==
    /\ pc = "idle"
    /\ IndicesSegmentos' = associar_resultado(IndicesSegmentos, Indices,
                                SegmentosInvestimento, ticker, id_segmento, peso, conexao)
    /\ res' = ResChamada("associar_indice_segmento", ticker, <<id_segmento, peso>>)
    /\ UNCHANGED <<Indices, SegmentosInvestimento, HistoricoPrecos, pc, id_indice, df>>
    /\ UNCHANGED runVars

\* ------------------------------------ YahooFinanceCollector.baixar_dados_historicos
baixar_dados_historicos(ticker, dados) ==
    /\ pc = "idle"
    /\ IdsDoTicker(Indices, ticker) # {}
    /\ id_indice' = CHOOSE i \in IdsDoTicker(Indices, ticker) : TRUE
    /\ df' = dados
    /\ pc' = "coletor"
    /\ res' = NoRes
    /\ UNCHANGED tables
    /\ UNCHANGED runVars

salvar_historico_precos(conexao) ==
    /\ pc = "coletor"
    /\ LET r == salvar_historico_precos_resultado(HistoricoPrecos, id_indice, df, conexao)
       IN  /\ HistoricoPrecos' = r.tab
           /\ res' = [op |-> "salvar_historico_precos", ret |-> NULL,
                      inseridos |-> r.inseridos, duplicados |-> r.duplicados,
                      raised |-> r.raised,
                      repetida |-> (res.op = "salvar_historico_precos" /\ ~res.raised),
                      chave |-> "", info |-> <<>>]
    /\ UNCHANGED <<Indices, SegmentosInvestimento, IndicesSegmentos, pc, id_indice, df>>
    /\ UNCHANGED runVars

baixar_dados_indices(dados) ==
    /\ pc = "idle"
    /\ df' = dados
    /\ pc' = "loader"
    /\ id_indice' = NULL
    /\ res' = NoRes
    /\ UNCHANGED tables
    /\ UNCHANGED runVars

insere_ou_atualiza_indice(conexao) ==
    /\ pc = "loader"
    /\ IF conexao
       THEN /\ Indices' = LoopIndices(Indices, df)
            /\ res' = ResChamada("insere_ou_atualiza_indice", "", <<>>)
       ELSE /\ UNCHANGED Indices
            /\ res' = [ResChamada("insere_ou_atualiza_indice", "", <<>>)
                         EXCEPT !.raised = TRUE]
    /\ UNCHANGED <<SegmentosInvestimento, IndicesSegmentos, HistoricoPrecos,
                   pc, id_indice, df>>
    /\ UNCHANGED runVars

insere_historico_precos(conexao) ==
    /\ pc = "loader"
    /\ LET r == insere_historico_precos_resultado(HistoricoPrecos, Indices, df, conexao)
       IN  /\ HistoricoPrecos' = r.tab
           /\ res' = [op |-> "insere_historico_precos", ret |-> NULL,
                      inseridos |-> r.inseridos, duplicados |-> r.duplicados,
                      raised |-> r.raised,
                      repetida |-> (res.op = "insere_historico_precos" /\ ~res.raised),
                      chave |-> "", info |-> <<>>]
    /\ UNCHANGED <<Indices, SegmentosInvestimento, IndicesSegmentos, pc, id_indice, df>>
    /\ UNCHANGED runVars

\* the caller drops its DataFrame and goes on
Retorna ==
    /\ pc \in {"coletor", "loader"}
    /\ pc' = "idle"
    /\ df' = <<>>
    /\ id_indice' = NULL
    /\ res' = NoRes
    /\ UNCHANGED tables
    /\ UNCHANGED runVars

\* ------------------------------------------------------ concurrent writers
\* Two processes run the collector against one store.  A writer outside a
\* call is parado; inside adicionar_indice or criar_segmento it is first
\* before its SELECT, then (the key found absent) before its INSERT.
Escritores == {1, 2}

EscritorParado ==
    [pc |-> "parado", op |-> "none", chave |-> "", ret |-> NULL, raised |-> FALSE,
     chamadas |-> 0]

SemEscritores == [w \in Escritores |-> EscritorParado]

Init ==
    /\ Indices = {}
    /\ SegmentosInvestimento = {}
    /\ IndicesSegmentos = EmptyBag
    /\ HistoricoPrecos = EmptyBag
    /\ pc = "idle"
    /\ id_indice = NULL
    /\ df = <<>>
    /\ res = NoRes
    /\ segmentos_ids = <<>>
    /\ idx = 0
    /\ provedor = [t \in Tickers |-> [falha |-> FALSE, bars |-> <<>>]]
    /\ perdeu = FALSE
    /\ crashes = <<>>
    /\ sleeps = 0
    /\ OportunidadesInvestimento = {}
    /\ metricas = SemMetricas
    /\ oportunidades = <<>>
    /\ escritores = SemEscritores
    /\ unico = TRUE

Next ==
    \/ \E t \in Tickers, c \in BOOLEAN : adicionar_indice(t, "d1", "p1", c)
    \/ \E t \in Tickers, d \in DataFrames : baixar_dados_historicos(t, d)
    \/ \E c \in BOOLEAN : salvar_historico_precos(c)
    \/ \E d \in FramesDeIndices("d1", "p1") : baixar_dados_indices(d)
    \/ \E c \in BOOLEAN : insere_ou_atualiza_indice(c)
    \/ \E c \in BOOLEAN : insere_historico_precos(c)
    \/ Retorna

Spec == Init /\ [][Next]_vars

\* ---------------------------------------------------------------------
\* The reference data alone: any sequence of get-or-create and link calls by
\* one writer, the collector's and the loader's, with any arguments.
Descricoes == {"d1", "d2"}
Paises == {"p1", "p2"}
Nomes == {"S1", "S2"}
Pesos == {PesoPadrao, 50}     \* the default Peso and another one a caller passes
IdsSegmento == {1, 2}

\* the one-row frame of a ticker the loader downloads
FramesDeUmaLinha(descricao, pais) ==
    {FrameDoTicker(t, descricao, pais, <<[Date |-> 1, Close |-> "100", Volume |-> "5"]>>) :
        t \in TickersInfo}

NextRef ==
    \/ \E t \in Tickers, d \in Descricoes, p \in Paises, c \in BOOLEAN :
          adicionar_indice(t, d, p, c)
    \/ \E n \in Nomes, d \in Descricoes, c \in BOOLEAN : criar_segmento(n, d, c)
    \/ \E d \in Descricoes, p \in Paises :
          \E f \in FramesDeUmaLinha(d, p) : baixar_dados_indices(f)
    \/ \E c \in BOOLEAN : insere_ou_atualiza_indice(c)
    \/ Retorna

SpecRef == Init /\ [][NextRef]_vars

\* The links: instruments and segments are created with the catalog's fixed
\* description, links are requested for any ticker, segment id and weight.
NextAssoc ==
    \/ \E t \in Tickers, c \in BOOLEAN : adicionar_indice(t, "d1", "p1", c)
    \/ \E n \in Nomes, c \in BOOLEAN : criar_segmento(n, "d1", c)
    \/ \E t \in Tickers, s \in IdsSegmento, w \in Pesos, c \in BOOLEAN :
          associar_indice_segmento(t, s, w, c)

SpecAssoc == Init /\ [][NextAssoc]_vars

\* ---------------------------------------------------------------------
\* executar_coleta_completa: the full-refresh run of the collector, one step
\* per call it makes, with the process dying at any step and being started
\* again.  Every handler commits before it returns and a handler that dies
\* before its commit leaves nothing behind, so an interruption inside a
\* handler is an interruption before or after it.
indices_para_coletar ==
    << [ticker |-> "AAA", descricao |-> "d1", pais |-> "p1", segmento |-> "S1"],
       [ticker |-> "BBB", descricao |-> "d1", pais |-> "p1", segmento |-> "S2"] >>

segmentos_info == << <<"S1", "d1">>, <<"S2", "d1">> >>

total_indices == Len(indices_para_coletar)

\* what the provider holds for one ticker over the period: nothing (or the
\* download fails), one bar, two bars of one date, a malformed bar and a bar
FramesProvedor ==
    { <<>>,
      <<[Date |-> 1, Close |-> "100", Volume |-> "5"]>>,
      <<[Date |-> 1, Close |-> "100", Volume |-> "5"],
        [Date |-> 1, Close |-> "110", Volume |-> "nan"]>>,
      <<[Date |-> 1, Close |-> "100", Volume |-> "inf"],
        [Date |-> 2, Close |-> "100", Volume |-> "5"]>> }

\* what yfinance does with one request: it raises (network error, malformed
\* response) or it returns the bars it holds, none possibly
RespostasProvedor ==
    {[falha |-> FALSE, bars |-> f] : f \in FramesProvedor} \cup
    {[falha |-> TRUE, bars |-> <<>>]}

\* baixar_dados_historicos: the except logs the error and returns an empty
\* DataFrame, an empty history is returned as an empty DataFrame
baixar_dados_historicos_resultado(resposta) ==
    IF resposta.falha THEN <<>>
    ELSE IF resposta.bars = <<>> THEN <<>>
    ELSE resposta.bars

\* segmentos_ids.get(nome); 0 stands for None
IdDoSegmento(ids, nome) == IF nome \in DOMAIN ids THEN ids[nome] ELSE 0

Posicoes == {"segmentos", "coletar", "baixar", "salvar", "associar", "sleep", "fim"}

\* segmentos_ids[nome] = collector.criar_segmento(nome, descricao); the call is
\* outside any try, so its exception ends the run with a traceback
Run_criar_segmento(conexao) ==
    /\ pc = "segmentos"
    /\ LET k == Cardinality(DOMAIN segmentos_ids) + 1
           nome == segmentos_info[k][1]
           r == criar_segmento_resultado(SegmentosInvestimento, nome,
                                         segmentos_info[k][2], conexao)
       IN  /\ SegmentosInvestimento' = r.tab
           /\ res' = [ResChamada("criar_segmento", nome, <<segmentos_info[k][2]>>)
                        EXCEPT !.ret = r.ret, !.raised = r.raised]
           /\ IF r.raised
              THEN /\ pc' = "erro"
                   /\ perdeu' = TRUE
                   /\ UNCHANGED <<segmentos_ids, idx>>
              ELSE /\ segmentos_ids' =
                        [n \in DOMAIN segmentos_ids \cup {nome} |->
                            IF n = nome THEN r.ret ELSE segmentos_ids[n]]
                   /\ pc' = IF k = Len(segmentos_info) THEN "coletar" ELSE "segmentos"
                   /\ idx' = IF k = Len(segmentos_info) THEN 1 ELSE idx
                   /\ UNCHANGED perdeu
    /\ UNCHANGED <<Indices, IndicesSegmentos, HistoricoPrecos, id_indice, df,
                   fixos, crashes, sleeps>>

\* coletar_indice_completo, step 1; its except Exception catches what
\* adicionar_indice re-raises and the run goes on to the link
Run_adicionar_indice(conexao) ==
    /\ pc = "coletar"
    /\ LET info == indices_para_coletar[idx]
           r == adicionar_indice_resultado(Indices, info.ticker, info.descricao,
                                           info.pais, conexao)
       IN  /\ Indices' = r.tab
           /\ id_indice' = r.ret
           /\ res' = [ResChamada("adicionar_indice", info.ticker,
                                 <<info.descricao, info.pais>>)
                        EXCEPT !.ret = r.ret, !.raised = r.raised]
           /\ pc' = IF r.raised THEN "associar" ELSE "baixar"
           /\ perdeu' = (perdeu \/ r.raised)
    /\ UNCHANGED <<SegmentosInvestimento, IndicesSegmentos, HistoricoPrecos, df,
                   segmentos_ids, idx, fixos, crashes, sleeps>>

\* mutant: an instrument without data ends the run
Run_baixar_aborta ==
    /\ pc = "baixar"
    /\ df' = baixar_dados_historicos_resultado(provedor[indices_para_coletar[idx].ticker])
    /\ pc' = IF df' = <<>> THEN "erro" ELSE "salvar"
    /\ res' = NoRes
    /\ UNCHANGED tables
    /\ UNCHANGED <<id_indice, segmentos_ids, idx, fixos, perdeu, crashes, sleeps>>

\* coletar_indice_completo, step 2; if not df.empty: ... else: logger.warning
Run_baixar_dados_historicos ==
    /\ pc = "baixar"
    /\ df' = baixar_dados_historicos_resultado(provedor[indices_para_coletar[idx].ticker])
    /\ pc' = IF df' = <<>> THEN "associar" ELSE "salvar"
    /\ res' = NoRes
    /\ UNCHANGED tables
    /\ UNCHANGED <<id_indice, segmentos_ids, idx, fixos, perdeu, crashes, sleeps>>

\* mutant: what salvar_historico_precos re-raises ends the run
Run_salvar_propaga(conexao) ==
    /\ pc = "salvar"
    /\ LET r == salvar_historico_precos_resultado(HistoricoPrecos, id_indice, df, conexao)
       IN  /\ HistoricoPrecos' = r.tab
           /\ res' = [op |-> "salvar_historico_precos", ret |-> NULL,
                      inseridos |-> r.inseridos, duplicados |-> r.duplicados,
                      raised |-> r.raised, repetida |-> FALSE,
                      chave |-> "", info |-> <<>>]
           /\ perdeu' = (perdeu \/ r.raised)
           /\ pc' = IF r.raised THEN "erro" ELSE "associar"
    /\ UNCHANGED <<Indices, SegmentosInvestimento, IndicesSegmentos, id_indice, df,
                   segmentos_ids, idx, fixos, crashes, sleeps>>

\* coletar_indice_completo, step 3; its except Exception catches what
\* salvar_historico_precos re-raises, logs it and returns normally
Run_salvar_historico_precos(conexao) ==
    /\ pc = "salvar"
    /\ LET r == salvar_historico_precos_resultado(HistoricoPrecos, id_indice, df, conexao)
       IN  /\ HistoricoPrecos' = r.tab
           /\ res' = [op |-> "salvar_historico_precos", ret |-> NULL,
                      inseridos |-> r.inseridos, duplicados |-> r.duplicados,
                      raised |-> r.raised, repetida |-> FALSE,
                      chave |-> "", info |-> <<>>]
           /\ perdeu' = (perdeu \/ r.raised)
    /\ pc' = "associar"
    /\ UNCHANGED <<Indices, SegmentosInvestimento, IndicesSegmentos, id_indice, df,
                   segmentos_ids, idx, fixos, crashes, sleeps>>

\* mutant: a ticker without a row in Indices ends the run with the error
Run_associar_propaga(conexao) ==
    /\ pc = "associar"
    /\ LET info == indices_para_coletar[idx]
           id_segmento == IdDoSegmento(segmentos_ids, info.segmento)
       IN  /\ IndicesSegmentos' =
                 associar_resultado(IndicesSegmentos, Indices, SegmentosInvestimento,
                                    info.ticker, id_segmento, PesoPadrao, conexao)
           /\ res' = ResChamada("associar_indice_segmento", info.ticker,
                                <<id_segmento, PesoPadrao>>)
           /\ perdeu' = (perdeu \/ ~conexao)
           /\ pc' = IF IdsDoTicker(Indices, info.ticker) = {} THEN "erro"
                    ELSE IF idx < total_indices THEN "sleep" ELSE "fim"
    /\ id_indice' = NULL
    /\ df' = <<>>
    /\ UNCHANGED <<Indices, SegmentosInvestimento, HistoricoPrecos,
                   segmentos_ids, idx, fixos, crashes, sleeps>>

\* id_segmento = segmentos_ids.get(...); if id_segmento: associar_indice_segmento
Run_associar_indice_segmento(conexao) ==
    /\ pc = "associar"
    /\ LET info == indices_para_coletar[idx]
           id_segmento == IdDoSegmento(segmentos_ids, info.segmento)
       IN  IF id_segmento # 0
           THEN /\ IndicesSegmentos' =
                      associar_resultado(IndicesSegmentos, Indices, SegmentosInvestimento,
                                         info.ticker, id_segmento, PesoPadrao, conexao)
                /\ res' = ResChamada("associar_indice_segmento", info.ticker,
                                     <<id_segmento, PesoPadrao>>)
                /\ perdeu' = (perdeu \/ ~conexao)
           ELSE /\ conexao
                /\ res' = NoRes
                /\ UNCHANGED <<IndicesSegmentos, perdeu>>
    /\ pc' = IF idx < total_indices THEN "sleep" ELSE "fim"
    /\ id_indice' = NULL
    /\ df' = <<>>
    /\ UNCHANGED <<Indices, SegmentosInvestimento, HistoricoPrecos,
                   segmentos_ids, idx, fixos, crashes, sleeps>>

\* mutant: the loop goes to the next catalog entry without the delay
Run_sleep_nao_dorme ==
    /\ pc = "sleep"
    /\ pc' = "coletar"
    /\ idx' = idx + 1
    /\ res' = NoRes
    /\ UNCHANGED tables
    /\ UNCHANGED <<id_indice, df, segmentos_ids, fixos, perdeu, crashes, sleeps>>

\* if idx < total_indices: time.sleep(1), then the next catalog entry
Run_sleep ==
    /\ pc = "sleep"
    /\ pc' = "coletar"
    /\ idx' = idx + 1
    /\ sleeps' = sleeps + 1
    /\ res' = NoRes
    /\ UNCHANGED tables
    /\ UNCHANGED <<id_indice, df, segmentos_ids, fixos, perdeu, crashes>>

\* logger.info("COLETA CONCLUIDA COM SUCESSO!") and the script ends
Run_fim ==
    /\ pc = "fim"
    /\ pc' = "sucesso"
    /\ res' = NoRes
    /\ UNCHANGED tables
    /\ UNCHANGED <<id_indice, df, segmentos_ids, idx, fixos, perdeu, crashes, sleeps>>

\* the process dies: its locals are gone, the committed tables stay
Crash ==
    /\ pc \in Posicoes
    /\ Len(crashes) < MaxCrashes
    /\ crashes' = Append(crashes, [pc |-> pc, idx |-> idx])
    /\ pc' = "crashed"
    /\ segmentos_ids' = <<>>
    /\ idx' = 0
    /\ sleeps' = 0
    /\ id_indice' = NULL
    /\ df' = <<>>
    /\ res' = NoRes
    /\ perdeu' = FALSE
    /\ UNCHANGED tables
    /\ UNCHANGED fixos

\* python data_collector.py again: executar_coleta_completa from its first line
Reinicia ==
    /\ pc = "crashed"
    /\ pc' = "segmentos"
    /\ UNCHANGED tables
    /\ UNCHANGED <<id_indice, df, res, segmentos_ids, idx, fixos, perdeu, crashes, sleeps>>

InitRun ==
    /\ Indices = {}
    /\ SegmentosInvestimento = {}
    /\ IndicesSegmentos = EmptyBag
    /\ HistoricoPrecos = EmptyBag
    /\ pc = "segmentos"
    /\ id_indice = NULL
    /\ df = <<>>
    /\ res = NoRes
    /\ segmentos_ids = <<>>
    /\ idx = 0
    /\ provedor \in [Tickers -> RespostasProvedor]
    /\ perdeu = FALSE
    /\ crashes = <<>>
    /\ sleeps = 0
    /\ OportunidadesInvestimento = {}
    /\ metricas = SemMetricas
    /\ oportunidades = <<>>
    /\ escritores = SemEscritores
    /\ unico = TRUE

NextRun ==
    \/ \E c \in BOOLEAN : Run_criar_segmento(c)
    \/ \E c \in BOOLEAN : Run_adicionar_indice(c)
    \/ Run_baixar_dados_historicos
    \/ \E c \in BOOLEAN : Run_salvar_historico_precos(c)
    \/ \E c \in BOOLEAN : Run_associar_indice_segmento(c)
    \/ Run_sleep
    \/ Run_fim
    \/ Crash
    \/ Reinicia

SpecRun == InitRun /\ [][NextRun]_vars

\* the tables one run leaves when it starts on an empty store, is not
\* interrupted and never loses its connection
RECURSIVE CriaSegmentos(_, _)
CriaSegmentos(seg, k) ==
    IF k > Len(segmentos_info) THEN seg
    ELSE CriaSegmentos(
             criar_segmento_resultado(seg, segmentos_info[k][1],
                                      segmentos_info[k][2], TRUE).tab, k + 1)

RECURSIVE ColetaDe(_, _, _)
ColetaDe(st, k, prov) ==
    IF k > total_indices THEN st
    ELSE LET info == indices_para_coletar[k]
             a == adicionar_indice_resultado(st.ind, info.ticker, info.descricao,
                                             info.pais, TRUE)
             s == salvar_historico_precos_resultado(st.hist, a.ret,
                      baixar_dados_historicos_resultado(prov[info.ticker]), TRUE)
             ids == IdsDoNome(st.seg, info.segmento)
             l == associar_resultado(st.links, a.tab, st.seg, info.ticker,
                                     CHOOSE i \in ids : TRUE, PesoPadrao, TRUE)
         IN  ColetaDe([ind |-> a.tab, seg |-> st.seg, links |-> l, hist |-> s.tab],
                      k + 1, prov)

executar_coleta_completa_resultado(prov) ==
    ColetaDe([ind |-> {}, seg |-> CriaSegmentos({}, 1), links |-> EmptyBag,
              hist |-> EmptyBag], 1, prov)

\* ---------------------------------------------------------------------
\* AnalisadorInvestimentos (app.py): the analysis service reads the store.
\* Dates are day numbers; the window of a call made on day hoje starts at
\* data_inicio = hoje - Dias.

\* ORDER BY i.Ticker: the tickers in their collation order
OrdemTickers == <<"AAA", "BBB">>

\* the rows of one ticker and one date the JOIN yields: one per stored price
\* row of the date and per link row of the instrument with the segment (rows
\* of one ticker and date have no order among them; a store with one price
\* row per instrument and date has no such rows)
RECURSIVE Repete(_, _)
Repete(x, n) == IF n = 0 THEN <<>> ELSE <<x>> \o Repete(x, n - 1)

RECURSIVE LinhasDe(_, _, _, _)
LinhasDe(S, hist, links, id_segmento) ==
    IF S = {} THEN <<>>
    ELSE LET r == CHOOSE x \in S : TRUE
             vezes == CopiesIn(r, hist) * ContaAssociacao(links, r.IdIndice, id_segmento)
         IN  Repete(r, vezes) \o LinhasDe(S \ {r}, hist, links, id_segmento)

LinhasDoDia(ind, links, hist, id_segmento, ticker, data) ==
    LET ids == IdsDoTicker(ind, ticker)
        S == {r \in BagToSet(hist) : r.IdIndice \in ids /\ r.DataQuotacao = data}
        linhas == LinhasDe(S, hist, links, id_segmento)
    IN  [k \in 1..Len(linhas) |->
            [Ticker |-> ticker, DataQuotacao |-> data,
             Fechamento |-> linhas[k].Fechamento, Volume |-> linhas[k].Volume]]

RECURSIVE LinhasDoTicker(_, _, _, _, _, _, _)
LinhasDoTicker(ind, links, hist, id_segmento, ticker, data, fim) ==
    IF data > fim THEN <<>>
    ELSE LinhasDoDia(ind, links, hist, id_segmento, ticker, data)
           \o LinhasDoTicker(ind, links, hist, id_segmento, ticker, data + 1, fim)

\* the last date a stored price row carries (0 for an empty table)
UltimaData(hist) ==
    LET D == {r.DataQuotacao : r \in BagToSet(hist)}
    IN  IF D = {} THEN 0 ELSE CHOOSE m \in D : \A x \in D : x <= m

RECURSIVE LinhasDosTickers(_, _, _, _, _, _)
LinhasDosTickers(ind, links, hist, id_segmento, data_inicio, k) ==
    IF k > Len(OrdemTickers) THEN <<>>
    ELSE LinhasDoTicker(ind, links, hist, id_segmento, OrdemTickers[k],
                        data_inicio, UltimaData(hist))
           \o LinhasDosTickers(ind, links, hist, id_segmento, data_inicio, k + 1)

\* mutant: the query has no condition on DataQuotacao
obter_dados_sem_janela(ind, links, hist, id_segmento, hoje) ==
    LinhasDosTickers(ind, links, hist, id_segmento, 0, 1)

\* SELECT ... FROM HistoricoPrecos hp JOIN Indices i JOIN IndicesSegmentos seg
\* WHERE seg.IdSegmento = :id_segmento AND hp.DataQuotacao >= :data_inicio
\* ORDER BY i.Ticker, hp.DataQuotacao
obter_dados_segmento(ind, links, hist, id_segmento, hoje) ==
    LinhasDosTickers(ind, links, hist, id_segmento, hoje - Dias, 1)


\* 'Fechamento': float(row[3]) if row[3] else 0 -- a NULL and a zero close
\* both become 0
FechamentoFloat(v) == IF v = NULL \/ v = 0 THEN 0 ELSE v

\* x / y - 1, times 100, of two floats that are not negative: the division
\* by zero gives inf, 0/0 gives nan, and neither raises
pct_change(anterior, atual) ==
    IF anterior = 0
    THEN IF atual = 0 THEN NaN ELSE Inf
    ELSE Frac((atual - anterior) * 100, anterior)

\* mutant: the change is taken from the row before, whatever its ticker
RetornoSemGrupo(dados, k) ==
    IF k = 1 THEN NaN
    ELSE pct_change(FechamentoFloat(dados[k - 1].Fechamento),
                    FechamentoFloat(dados[k].Fechamento))

\* df.groupby('Ticker')['Fechamento'].pct_change() * 100, row k: the change
\* from the row of the same ticker before it, nan for the first of a ticker
Retorno(dados, k) ==
    LET antes == {j \in 1..(k - 1) : dados[j].Ticker = dados[k].Ticker}
    IN  IF antes = {} THEN NaN
        ELSE LET j == CHOOSE x \in antes : \A y \in antes : y <= x
             IN  pct_change(FechamentoFloat(dados[j].Fechamento),
                            FechamentoFloat(dados[k].Fechamento))

\* the column df['Retorno']
Retornos(dados) == [k \in 1..Len(dados) |-> Retorno(dados, k)]

RECURSIVE SomaDe(_, _)
SomaDe(col, K) ==
    IF K = {} THEN Frac(0, 1)
    ELSE LET k == CHOOSE x \in K : TRUE
         IN  Soma(col[k], SomaDe(col, K \ {k}))

\* Series.mean(): nan values are skipped, an inf makes the mean inf, and a
\* column without a value has mean nan
mean(col) ==
    LET K == {k \in 1..Len(col) : col[k].k # "nan"}
    IN  IF K = {} THEN NaN
        ELSE IF \E k \in K : col[k].k = "inf" THEN Inf
        ELSE Vezes(SomaDe(col, K), 1, Cardinality(K))

\* mutant: the variance of the population (ddof = 0), 0 for a single value
var_populacional(col) ==
    LET K == {k \in 1..Len(col) : col[k].k # "nan"}
        m == mean(col)
        desvios == [k \in 1..Len(col) |->
                       IF k \in K THEN Quadrado(Soma(col[k], Vezes(m, -1, 1)))
                       ELSE NaN]
    IN  IF K = {} \/ (\E k \in K : col[k].k = "inf") THEN NaN
        ELSE Vezes(SomaDe(desvios, K), 1, Cardinality(K))

\* the square of Series.std(): the sample variance (ddof = 1) of the values
\* that are not nan; nan with fewer than two of them, and with an inf
var(col) ==
    LET K == {k \in 1..Len(col) : col[k].k # "nan"}
        m == mean(col)
        desvios == [k \in 1..Len(col) |->
                       IF k \in K THEN Quadrado(Soma(col[k], Vezes(m, -1, 1)))
                       ELSE NaN]
    IN  IF Cardinality(K) < 2 \/ (\E k \in K : col[k].k = "inf") THEN NaN
        ELSE Vezes(SomaDe(desvios, K), 1, Cardinality(K) - 1)

Maximo(S) == CHOOSE m \in S : \A x \in S : x <= m
Minimo(S) == CHOOSE m \in S : \A x \in S : m <= x

RECURSIVE SomaVolume(_, _)
SomaVolume(dados, k) ==
    IF k > Len(dados) THEN 0
    ELSE (IF dados[k].Volume = NULL THEN 0 ELSE dados[k].Volume)
           + SomaVolume(dados, k + 1)

\* calcular_metricas_segmento after the query: None without rows, else the
\* metrics of the frame.  The volatility is kept as its square, Variancia.
metricas_de(dados) ==
    IF dados = <<>> THEN SemMetricas
    ELSE LET F == {FechamentoFloat(dados[k].Fechamento) : k \in 1..Len(dados)}
         IN  [none |-> FALSE,
              RetornoMedio |-> mean(Retornos(dados)),
              Variancia |-> var(Retornos(dados)),
              PrecoMaximo |-> Maximo(F),
              PrecoMinimo |-> Minimo(F),
              VolumeTotal |-> SomaVolume(dados, 1)]

calcular_metricas_segmento_resultado(ind, links, hist, id_segmento, hoje) ==
    metricas_de(obter_dados_segmento(ind, links, hist, id_segmento, hoje))

\* mutant: the comparison is volatilidade <= c
VolatilidadeMenorOuIgual(v2, c) == v2.k = "num" /\ v2.n <= c * c * v2.d

\* volatilidade < c, on the square: every comparison with nan is False
VolatilidadeMenor(v2, c) == Menor(v2, c * c)

\* gerar_oportunidades after the metrics: [] without metrics, else one
\* opportunity; confianca in hundredths
oportunidades_de(id_segmento, m) ==
    IF m.none THEN <<>>
    ELSE LET retorno_medio == m.RetornoMedio
             tipo == IF Maior(retorno_medio, 2) THEN "COMPRA"
                     ELSE IF Menor(retorno_medio, -1) THEN "VENDA"
                     ELSE "HOLD"
             potencial == IF Maior(retorno_medio, 2) THEN Vezes(retorno_medio, 3, 2)
                          ELSE IF Menor(retorno_medio, -1) THEN Vezes(Abs(retorno_medio), 4, 5)
                          ELSE retorno_medio
             risco == IF VolatilidadeMenor(m.Variancia, 2) THEN "BAIXO"
                      ELSE IF VolatilidadeMenor(m.Variancia, 5) THEN "MEDIO"
                      ELSE "ALTO"
             confianca == IF VolatilidadeMenor(m.Variancia, 2) THEN 85
                          ELSE IF VolatilidadeMenor(m.Variancia, 5) THEN 70
                          ELSE 55
         IN  <<[id_segmento |-> id_segmento, tipo |-> tipo,
                potencial_retorno |-> potencial, nivel_risco |-> risco,
                confianca |-> confianca, metricas |-> m]>>

\* the analysis service is called between requests; a call records its
\* arguments and the day it ran on in res.  A behaviour follows the calls of
\* one operation for one segment, made on any days.
Segue(op, id_segmento) ==
    res.op = "none" \/ (res.op = op /\ res.info[1] = id_segmento)

\* res.repetida: the call has the arguments and the day of the call before it
ResAnalise(op, id_segmento, hoje) ==
    [ResChamada(op, "", <<id_segmento, hoje>>) EXCEPT
        !.repetida = (res.op = op /\ res.info = <<id_segmento, hoje>>)]

analise == <<pc, id_indice, df, segmentos_ids, idx, perdeu, crashes, sleeps, provedor,
             concorrencia>>

calcular_metricas_segmento(id_segmento, hoje) ==
    /\ pc = "idle"
    /\ Segue("calcular_metricas_segmento", id_segmento)
    /\ metricas' = calcular_metricas_segmento_resultado(
                       Indices, IndicesSegmentos, HistoricoPrecos, id_segmento, hoje)
    /\ oportunidades' = <<>>
    /\ res' = ResAnalise("calcular_metricas_segmento", id_segmento, hoje)
    /\ UNCHANGED <<tables, OportunidadesInvestimento, analise>>

\* mutant: the opportunity generated is stored
gerar_oportunidades_grava(id_segmento, hoje) ==
    LET m == calcular_metricas_segmento_resultado(
                 Indices, IndicesSegmentos, HistoricoPrecos, id_segmento, hoje)
    IN  /\ pc = "idle"
        /\ Segue("gerar_oportunidades", id_segmento)
        /\ metricas' = m
        /\ oportunidades' = oportunidades_de(id_segmento, m)
        /\ OportunidadesInvestimento' =
               OportunidadesInvestimento \cup
                 {oportunidades_de(id_segmento, m)[k] :
                      k \in 1..Len(oportunidades_de(id_segmento, m))}
        /\ res' = ResAnalise("gerar_oportunidades", id_segmento, hoje)
        /\ UNCHANGED <<tables, analise>>

gerar_oportunidades(id_segmento, hoje) ==
    LET m == calcular_metricas_segmento_resultado(
                 Indices, IndicesSegmentos, HistoricoPrecos, id_segmento, hoje)
    IN  /\ pc = "idle"
        /\ Segue("gerar_oportunidades", id_segmento)
        /\ metricas' = m
        /\ oportunidades' = oportunidades_de(id_segmento, m)
        /\ res' = ResAnalise("gerar_oportunidades", id_segmento, hoje)
        /\ UNCHANGED <<tables, OportunidadesInvestimento, analise>>

\* The stores the analysis is run on: both instruments and both segments
\* of the catalog exist, the price rows of an instrument carry the dates
\* 1, 2, ... and one row per date, and no instrument is linked to S2.
\* AAA: every close but the last is missing, zero or a round price
FechamentosA == {NULL, 0, 99, 100, 102, 110}
BasesA == {NULL, 0, 100, 110}
FechamentosB == {98, 105}
SeriesA == {<<>>} \cup {s \o <<c>> : s \in SeqsAte(BasesA, MaxBars - 1), c \in FechamentosA}
SeriesB == {<<>>, <<100>>} \cup {<<100, c>> : c \in FechamentosB}
Associacoes == {{}, {1}, {1, 2}}
\* the days a call runs on: the window holds every row, all but those of
\* date 1, or none
Hojes == {Dias + 1, Dias + 2, Dias + MaxBars + 1}

HistoricoDe(id, serie) ==
    {[IdIndice |-> id, DataQuotacao |-> k, Fechamento |-> serie[k],
      FechamentoAjustado |-> serie[k], Volume |-> 5] : k \in 1..Len(serie)}

InitAnalise ==
    /\ Indices = {[IdIndice |-> k, Ticker |-> indices_para_coletar[k].ticker,
                   Descricao |-> "d1", Pais |-> "p1"] : k \in 1..total_indices}
    /\ SegmentosInvestimento =
           {[IdSegmento |-> 1, Nome |-> "S1", Descricao |-> "d1"],
            [IdSegmento |-> 2, Nome |-> "S2", Descricao |-> "d1"]}
    /\ \E ligados \in Associacoes :
           IndicesSegmentos =
               SetToBag({[IdIndice |-> i, IdSegmento |-> 1, Peso |-> PesoPadrao] :
                             i \in ligados})
    /\ \E a \in SeriesA, b \in SeriesB :
           HistoricoPrecos = SetToBag(HistoricoDe(1, a) \cup HistoricoDe(2, b))
    /\ pc = "idle"
    /\ id_indice = NULL
    /\ df = <<>>
    /\ res = NoRes
    /\ segmentos_ids = <<>>
    /\ idx = 0
    /\ provedor = [t \in Tickers |-> [falha |-> FALSE, bars |-> <<>>]]
    /\ perdeu = FALSE
    /\ crashes = <<>>
    /\ sleeps = 0
    /\ OportunidadesInvestimento = {}
    /\ metricas = SemMetricas
    /\ oportunidades = <<>>
    /\ escritores = SemEscritores
    /\ unico = TRUE

NextAnalise ==
    \/ \E s \in IdsSegmento, h \in Hojes : calcular_metricas_segmento(s, h)
    \/ \E s \in IdsSegmento, h \in Hojes : gerar_oportunidades(s, h)

SpecAnalise == InitAnalise /\ [][NextAnalise]_vars

\* ---------------------------------------------------------------------
\* The download of both ingesters from a provider whose frames name the
\* adjusted close in one of several ways.

\* the name of the provider's adjusted-close column; "" when the frame has
\* none.  No other column of the frame has 'adj' in its name.
ColunasAjustado == {"Adj Close", "adjclose", "Adjusted", ""}

\* 'adj' in str(col).lower() and 'close' in str(col).lower()
TemAdj(col) == col \in {"Adj Close", "adjclose", "Adjusted"}
TemClose(col) == col \in {"Adj Close", "adjclose"}

\* the frame has a column 'Adj Close' after the rename of the first column
\* whose name holds 'adj' and 'close'
TemAdjClose(col) == col = "Adj Close" \/ (TemAdj(col) /\ TemClose(col))

\* the bars a provider holds for a ticker, with their adjusted close
FramesComAjuste ==
    { <<[Date |-> 1, Close |-> "100", Adj |-> "99", Volume |-> "5"]>>,
      <<[Date |-> 1, Close |-> "100", Adj |-> "99", Volume |-> "5"],
        [Date |-> 2, Close |-> "110", Adj |-> "100", Volume |-> "5"]>> }

RespostasComColuna ==
    {[falha |-> FALSE, bars |-> f, coluna |-> c] :
        f \in FramesComAjuste, c \in ColunasAjustado} \cup
    {[falha |-> FALSE, bars |-> <<>>, coluna |-> "Adj Close"],
     [falha |-> TRUE, bars |-> <<>>, coluna |-> ""]}

\* one iteration of baixar_dados_indices: the frame appended to
\* dados_completos for the ticker, <<>> when none is.  yf.download raising,
\* and df[colunas_mantidas] raising KeyError for the column
\* FechamentoAjustado the frame lacks, end the iteration in the except.
FrameBaixado(ticker, resposta) ==
    IF resposta.falha THEN <<>>
    ELSE IF resposta.bars = <<>> THEN <<>>
    ELSE IF ~TemAdjClose(resposta.coluna) THEN <<>>
    ELSE [k \in 1..Len(resposta.bars) |->
            [Ticker |-> ticker, Descricao |-> "d1", Pais |-> "p1",
             DataQuotacao |-> resposta.bars[k].Date,
             Fechamento |-> resposta.bars[k].Close,
             FechamentoAjustado |-> resposta.bars[k].Adj,
             Volume |-> resposta.bars[k].Volume]]

\* pd.concat(dados_completos) over tickers_info in its order; none is True
\* when dados_completos is empty and the result is None
RECURSIVE ConcatBaixados(_, _)
ConcatBaixados(respostas, k) ==
    IF k > Len(OrdemTickers) THEN <<>>
    ELSE (IF OrdemTickers[k] \in TickersInfo
          THEN FrameBaixado(OrdemTickers[k], respostas[OrdemTickers[k]])
          ELSE <<>>)
           \o ConcatBaixados(respostas, k + 1)

baixar_dados_indices_resultado(respostas) ==
    [df |-> ConcatBaixados(respostas, 1),
     none |-> \A t \in TickersInfo : FrameBaixado(t, respostas[t]) = <<>>]

\* main() of the loader: download, and return at once when nothing came
baixar_dados_indices_do_provedor ==
    /\ pc = "idle"
    /\ LET r == baixar_dados_indices_resultado(provedor)
       IN  /\ df' = r.df
           /\ pc' = IF r.none THEN "idle" ELSE "loader"
    /\ id_indice' = NULL
    /\ res' = ResChamada("baixar_dados_indices", "", <<>>)
    /\ UNCHANGED tables
    /\ UNCHANGED runVars

\* the collector: download of a stored ticker, then salvar_historico_precos
baixar_dados_historicos_do_provedor(ticker) ==
    /\ pc = "idle"
    /\ IdsDoTicker(Indices, ticker) # {}
    /\ id_indice' = CHOOSE i \in IdsDoTicker(Indices, ticker) : TRUE
    /\ df' = baixar_dados_historicos_resultado(provedor[ticker])
    /\ pc' = "coletor"
    /\ res' = ResChamada("baixar_dados_historicos", ticker, <<>>)
    /\ UNCHANGED tables
    /\ UNCHANGED runVars

InitBaixar ==
    /\ Indices = {[IdIndice |-> k, Ticker |-> indices_para_coletar[k].ticker,
                   Descricao |-> "d1", Pais |-> "p1"] : k \in 1..total_indices}
    /\ SegmentosInvestimento = {}
    /\ IndicesSegmentos = EmptyBag
    /\ HistoricoPrecos = EmptyBag
    /\ pc = "idle"
    /\ id_indice = NULL
    /\ df = <<>>
    /\ res = NoRes
    /\ segmentos_ids = <<>>
    /\ idx = 0
    /\ provedor \in [Tickers -> RespostasComColuna]
    /\ perdeu = FALSE
    /\ crashes = <<>>
    /\ sleeps = 0
    /\ OportunidadesInvestimento = {}
    /\ metricas = SemMetricas
    /\ oportunidades = <<>>
    /\ escritores = SemEscritores
    /\ unico = TRUE

NextBaixar ==
    \/ baixar_dados_indices_do_provedor
    \/ \E c \in BOOLEAN : insere_ou_atualiza_indice(c)
    \/ \E c \in BOOLEAN : insere_historico_precos(c)
    \/ \E t \in Tickers : baixar_dados_historicos_do_provedor(t)
    \/ \E c \in BOOLEAN : salvar_historico_precos(c)
    \/ Retorna

SpecBaixar == InitBaixar /\ [][NextBaixar]_vars

\* ---------------------------------------------------------------------
\* adicionar_indice and criar_segmento run by concurrent writers: the SELECT
\* and the INSERT with its commit are two statements, and another writer's
\* statements may run between them.

OperacoesDeChave == {"adicionar_indice", "criar_segmento"}
ChavesDe(op) == IF op = "adicionar_indice" THEN Tickers ELSE Nomes

\* SELECT IdIndice FROM Indices WHERE Ticker = :ticker
\* SELECT IdSegmento FROM SegmentosInvestimento WHERE Nome = :nome
IdsDaChave(ind, seg, op, chave) ==
    IF op = "adicionar_indice" THEN IdsDoTicker(ind, chave) ELSE IdsDoNome(seg, chave)

foraDosEscritores ==
    <<IndicesSegmentos, HistoricoPrecos, pc, id_indice, df, res, segmentos_ids, idx,
      perdeu, crashes, sleeps, provedor, OportunidadesInvestimento, metricas,
      oportunidades, unico>>

\* the call opens its connection and runs the SELECT: a row found is
\* returned (fetchone takes any of the rows of the key), a lost connection
\* is raised, and with no row the writer goes on to the INSERT
Escritor_consulta(w, op, chave, conexao) ==
    LET e == escritores[w]
        ids == IdsDaChave(Indices, SegmentosInvestimento, op, chave)
        chamada == [e EXCEPT !.op = op, !.chave = chave, !.chamadas = @ + 1]
    IN  /\ e.pc = "parado"
        /\ e.chamadas < MaxChamadas
        /\ IF ~conexao
           THEN escritores' = [escritores EXCEPT ![w] =
                    [chamada EXCEPT !.pc = "fim", !.raised = TRUE]]
           ELSE IF ids # {}
           THEN \E id \in ids :
                    escritores' = [escritores EXCEPT ![w] =
                        [chamada EXCEPT !.pc = "fim", !.ret = id]]
           ELSE escritores' = [escritores EXCEPT ![w] = [chamada EXCEPT !.pc = "inserir"]]
        /\ UNCHANGED <<Indices, SegmentosInvestimento, foraDosEscritores>>

\* mutant: the INSERT is conditional on the key being absent and returns the
\* id of the row found
Escritor_insere_atomico(w) ==
    LET e == escritores[w]
        ids == IdsDaChave(Indices, SegmentosInvestimento, e.op, e.chave)
        id == IF e.op = "adicionar_indice"
              THEN ProximoId({r.IdIndice : r \in Indices})
              ELSE ProximoId({r.IdSegmento : r \in SegmentosInvestimento})
    IN  /\ e.pc = "inserir"
        /\ IF ids # {}
           THEN /\ escritores' = [escritores EXCEPT ![w] =
                       [e EXCEPT !.pc = "fim", !.ret = CHOOSE i \in ids : TRUE]]
                /\ UNCHANGED <<Indices, SegmentosInvestimento>>
           ELSE /\ escritores' = [escritores EXCEPT ![w] = [e EXCEPT !.pc = "fim", !.ret = id]]
                /\ IF e.op = "adicionar_indice"
                   THEN /\ Indices' = Indices \cup
                               {[IdIndice |-> id, Ticker |-> e.chave,
                                 Descricao |-> "d1", Pais |-> "p1"]}
                        /\ UNCHANGED SegmentosInvestimento
                   ELSE /\ SegmentosInvestimento' = SegmentosInvestimento \cup
                               {[IdSegmento |-> id, Nome |-> e.chave, Descricao |-> "d1"]}
                        /\ UNCHANGED Indices
        /\ UNCHANGED foraDosEscritores

\* the INSERT ... OUTPUT INSERTED.Id and conn.commit(): a store that enforces
\* the unique key rejects the row of a key stored meanwhile and the except
\* re-raises; a store that does not enforce it takes the row
Escritor_insere(w) ==
    LET e == escritores[w]
        ids == IdsDaChave(Indices, SegmentosInvestimento, e.op, e.chave)
        id == IF e.op = "adicionar_indice"
              THEN ProximoId({r.IdIndice : r \in Indices})
              ELSE ProximoId({r.IdSegmento : r \in SegmentosInvestimento})
    IN  /\ e.pc = "inserir"
        /\ IF unico /\ ids # {}
           THEN /\ escritores' = [escritores EXCEPT ![w] =
                       [e EXCEPT !.pc = "fim", !.raised = TRUE]]
                /\ UNCHANGED <<Indices, SegmentosInvestimento>>
           ELSE /\ escritores' = [escritores EXCEPT ![w] = [e EXCEPT !.pc = "fim", !.ret = id]]
                /\ IF e.op = "adicionar_indice"
                   THEN /\ Indices' = Indices \cup
                               {[IdIndice |-> id, Ticker |-> e.chave,
                                 Descricao |-> "d1", Pais |-> "p1"]}
                        /\ UNCHANGED SegmentosInvestimento
                   ELSE /\ SegmentosInvestimento' = SegmentosInvestimento \cup
                               {[IdSegmento |-> id, Nome |-> e.chave, Descricao |-> "d1"]}
                        /\ UNCHANGED Indices
        /\ UNCHANGED foraDosEscritores

\* the call is over and the writer is free for its next one
Escritor_retorna(w) ==
    /\ escritores[w].pc = "fim"
    /\ escritores' = [escritores EXCEPT ![w] =
           [EscritorParado EXCEPT !.chamadas = escritores[w].chamadas]]
    /\ UNCHANGED <<Indices, SegmentosInvestimento, foraDosEscritores>>

InitConc ==
    /\ Indices = {}
    /\ SegmentosInvestimento = {}
    /\ IndicesSegmentos = EmptyBag
    /\ HistoricoPrecos = EmptyBag
    /\ pc = "idle"
    /\ id_indice = NULL
    /\ df = <<>>
    /\ res = NoRes
    /\ segmentos_ids = <<>>
    /\ idx = 0
    /\ provedor = [t \in Tickers |-> [falha |-> FALSE, bars |-> <<>>]]
    /\ perdeu = FALSE
    /\ crashes = <<>>
    /\ sleeps = 0
    /\ OportunidadesInvestimento = {}
    /\ metricas = SemMetricas
    /\ oportunidades = <<>>
    /\ escritores = SemEscritores
    /\ unico \in BOOLEAN

NextConc ==
    \/ \E w \in Escritores, op \in OperacoesDeChave, c \in BOOLEAN :
          \E chave \in ChavesDe(op) : Escritor_consulta(w, op, chave, c)
    \/ \E w \in Escritores : Escritor_insere(w)
    \/ \E w \in Escritores : Escritor_retorna(w)

SpecConc == InitConc /\ [][NextConc]_vars

C9_SegmentoPorNome ==
    [][/\ \A n \in Nomes :
            Cardinality({r \in SegmentosInvestimento' : r.Nome = n}) <= 1
       /\ SegmentosInvestimento \subseteq SegmentosInvestimento'
       /\ (res'.op = "criar_segmento" /\ ~res'.raised)
            => \E r \in SegmentosInvestimento' :
                  r.Nome = res'.chave /\ r.IdSegmento = res'.ret]_vars

\* a call for a stored name that passed another description
C9_Witness ==
    /\ res.op = "criar_segmento"
    /\ ~res.raised
    /\ \E r \in SegmentosInvestimento :
          /\ r.Nome = res.chave
          /\ r.IdSegmento = res.ret
          /\ <<r.Descricao>> # res.info

\* the stored links of one (IdIndice, IdSegmento), as a bag
LinksDoPar(tab, id, id_segmento) ==
    [r \in {x \in BagToSet(tab) : x.IdIndice = id /\ x.IdSegmento = id_segmento}
        |-> CopiesIn(r, tab)]

\* C10: in every step at most one link exists per (IdIndice, IdSegmento), and
\* the links of a pair already linked are after the step what they were
\* before it, weight included.
C10_UmaAssociacao ==
    [][/\ \A r \in BagToSet(IndicesSegmentos') :
            BagCardinality(LinksDoPar(IndicesSegmentos', r.IdIndice, r.IdSegmento)) = 1
       /\ \A r \in BagToSet(IndicesSegmentos) :
            LinksDoPar(IndicesSegmentos', r.IdIndice, r.IdSegmento)
              = LinksDoPar(IndicesSegmentos, r.IdIndice, r.IdSegmento)]_vars

\* a call for a pair already linked that passed another weight
C10_Witness ==
    /\ res.op = "associar_indice_segmento"
    /\ \E r \in BagToSet(IndicesSegmentos) :
          /\ r.IdIndice \in IdsDoTicker(Indices, res.chave)
          /\ r.IdSegmento = res.info[1]
          /\ r.Peso # res.info[2]

\* ====================================================================
\* Properties of the ingestion of price bars (checked under Spec)
\* ====================================================================
\* the stored rows of one (IdIndice, DataQuotacao), as a bag
LinhasDaChave(tab, id, data) ==
    [r \in {x \in BagToSet(tab) : x.IdIndice = id /\ x.DataQuotacao = data}
        |-> CopiesIn(r, tab)]

ChaveGuardada(tab, id, data) ==
    \E r \in BagToSet(tab) : r.IdIndice = id /\ r.DataQuotacao = data

\* the last call was an ingestion of df that returned
Ingeriu(r) ==
    /\ r.op \in {"salvar_historico_precos", "insere_historico_precos"}
    /\ ~r.raised

\* a cell of the canonical bar: a number, or missing
CelulaValida(cell) == cell \in CellsNumericas \cup {"nan"}

\* the bar of row i of df, whichever script holds df
FechamentoDe(row) == IF pc = "coletor" THEN row.Close ELSE row.Fechamento
DataDe(row) == IF pc = "coletor" THEN row.Date ELSE row.DataQuotacao
IdDe(row) == IF pc = "coletor" THEN id_indice ELSE IdDoMapa(Indices, row.Ticker)

BarraMalformada(row) ==
    ~(CelulaValida(FechamentoDe(row)) /\ CelulaValida(row.Volume))

DatasDistintas ==
    \A i, j \in 1..Len(df) : i # j => DataDe(df[i]) # DataDe(df[j])

\* C1: no two stored price rows share (IdIndice, DataQuotacao), after any
\* sequence of ingestions by either script, batches that repeat a date and
\* re-ingestions included.
C1_Unicidade ==
    \A r \in BagToSet(HistoricoPrecos) :
        BagCardinality(LinhasDaChave(HistoricoPrecos, r.IdIndice, r.DataQuotacao)) = 1

\* an ingestion that both inserted rows and met dates already stored
C1_Witness ==
    /\ Ingeriu(res)
    /\ res.inseridos >= 1
    /\ res.duplicados >= 1

C3_Imutavel ==
    [][\A r \in BagToSet(HistoricoPrecos) :
          LinhasDaChave(HistoricoPrecos', r.IdIndice, r.DataQuotacao)
            = LinhasDaChave(HistoricoPrecos, r.IdIndice, r.DataQuotacao)]_vars

\* an ingestion that re-observed a stored date with other values
C3_Witness ==
    /\ res.op = "salvar_historico_precos"
    /\ ~res.raised
    /\ res.duplicados >= 1
    /\ \E i \in 1..Len(df) :
          /\ ~BarraMalformada(df[i])
          /\ \E r \in BagToSet(HistoricoPrecos) :
                /\ r.IdIndice = id_indice
                /\ r.DataQuotacao = df[i].Date
                /\ r # LinhaColetor(id_indice, df[i])

\* C4 as claimed: when a bar of the batch is malformed, every other bar of
\* the batch (each cell a number or missing) whose instrument is known and
\* whose (IdIndice, DataQuotacao) is not yet stored is stored by the call.
C4_Isolamento ==
    [][(Ingeriu(res') /\ \E k \in 1..Len(df) : BarraMalformada(df[k]))
         => \A i \in 1..Len(df) :
               (/\ ~BarraMalformada(df[i])
                /\ IdDe(df[i]) # 0
                /\ ~ChaveGuardada(HistoricoPrecos, IdDe(df[i]), DataDe(df[i])))
               => ChaveGuardada(HistoricoPrecos', IdDe(df[i]), DataDe(df[i]))]_vars

\* C5 as claimed: the counts of a call of the collector account for every
\* input bar: inserted is the number of rows added, and inserted + duplicate
\* + failed is the number of input bars, a malformed bar being a failed one
\* and nothing else.
C5_Contagem ==
    [][(res'.op = "salvar_historico_precos" /\ ~res'.raised)
         => /\ res'.inseridos
                 = BagCardinality(HistoricoPrecos') - BagCardinality(HistoricoPrecos)
            /\ res'.inseridos + res'.duplicados
                 + Cardinality({i \in 1..Len(df) : BarraMalformada(df[i])})
                 = Len(df)]_vars

\* ====================================================================
\* Properties of the full-refresh run (checked under SpecRun)
\* ====================================================================
\* C6: a connection lost while a batch is being ingested propagates to the
\* caller of the run: the step of salvar_historico_precos that raises ends
\* the run with the error, the run does not go on to the next step.
C6_Propaga ==
    [][(pc = "salvar" /\ res'.op = "salvar_historico_precos" /\ res'.raised)
         => pc' = "erro"]_vars

\* the uniqueness invariants of the four tables
LojaValida ==
    /\ \A r1, r2 \in Indices :
          (r1.Ticker = r2.Ticker \/ r1.IdIndice = r2.IdIndice) => r1 = r2
    /\ \A r1, r2 \in SegmentosInvestimento :
          (r1.Nome = r2.Nome \/ r1.IdSegmento = r2.IdSegmento) => r1 = r2
    /\ \A r \in BagToSet(HistoricoPrecos) :
          ContaHistorico(HistoricoPrecos, r.IdIndice, r.DataQuotacao) = 1
    /\ \A r \in BagToSet(IndicesSegmentos) :
          ContaAssociacao(IndicesSegmentos, r.IdIndice, r.IdSegmento) = 1

\* what the four tables hold, read through their natural keys: the identity
\* values are replaced by the ticker and the segment name they stand for
Conteudo(ind, seg, links, hist) ==
    LET TickerDe(id) == (CHOOSE r \in ind : r.IdIndice = id).Ticker
        NomeDe(id) == (CHOOSE r \in seg : r.IdSegmento = id).Nome
    IN  [ind |-> {<<r.Ticker, r.Descricao, r.Pais>> : r \in ind},
         seg |-> {<<r.Nome, r.Descricao>> : r \in seg},
         links |-> {<<TickerDe(r.IdIndice), NomeDe(r.IdSegmento), r.Peso,
                      CopiesIn(r, links)>> : r \in BagToSet(links)},
         hist |-> {<<TickerDe(r.IdIndice), r.DataQuotacao, r.Fechamento,
                     r.FechamentoAjustado, r.Volume, CopiesIn(r, hist)>> :
                       r \in BagToSet(hist)}]

\* C7: an interrupted full refresh leaves a valid, resumable store.  In every
\* step of a run with interruptions: the uniqueness invariants hold after
\* it, every row committed before it is still stored after it (an
\* interruption and a restart included), and a run that ends without having
\* lost its connection, however the runs before it were interrupted, ends
\* with the content one uninterrupted run over the same provider data leaves
\* (the same rows under the same tickers, segment names and dates).
C7_Retomavel ==
    [][/\ LojaValida'
       /\ Indices \subseteq Indices'
       /\ SegmentosInvestimento \subseteq SegmentosInvestimento'
       /\ HistoricoPrecos \sqsubseteq HistoricoPrecos'
       /\ IndicesSegmentos \sqsubseteq IndicesSegmentos'
       /\ (pc' = "sucesso" /\ ~perdeu')
            => LET fim == executar_coleta_completa_resultado(provedor)
               IN  Conteudo(Indices', SegmentosInvestimento', IndicesSegmentos',
                            HistoricoPrecos')
                     = Conteudo(fim.ind, fim.seg, fim.links, fim.hist)]_vars

\* a run interrupted while it ingested the bars of its second instrument, the
\* first one's bars committed, was started again and ended with bars of both
C7_Witness ==
    /\ pc = "sucesso"
    /\ ~perdeu
    /\ \E i \in 1..Len(crashes) : crashes[i].pc = "salvar" /\ crashes[i].idx = 2
    /\ \A t \in Tickers :
          \E r \in BagToSet(HistoricoPrecos) : r.IdIndice \in IdsDoTicker(Indices, t)

\* the price rows stored for a ticker, read through their dates
BarrasGuardadas(t) ==
    {<<r.DataQuotacao, r.Fechamento, r.FechamentoAjustado, r.Volume>> :
        r \in {x \in BagToSet(HistoricoPrecos) : x.IdIndice \in IdsDoTicker(Indices, t)}}

\* the price rows the provider's data for a ticker leaves on an empty table
BarrasEsperadas(t) ==
    {<<r.DataQuotacao, r.Fechamento, r.FechamentoAjustado, r.Volume>> :
        r \in BagToSet(salvar_historico_precos_resultado(EmptyBag, 1,
                  baixar_dados_historicos_resultado(provedor[t]), TRUE).tab)}

SemDados(t) == baixar_dados_historicos_resultado(provedor[t]) = <<>>

\* C11: a provider failure or an empty provider result does not abort the
\* run.  The fetch step of such an instrument (a step of the run that is no
\* interruption) yields an empty DataFrame,
\* changes no table and hands over to the link step; while the run has not
\* lost its connection, whenever it fetches or has ended, every catalog entry
\* before the current one (every entry, at the end) has its provider bars
\* stored, an entry without data none.
C11_Continua ==
    [][/\ (/\ pc = "baixar"
           /\ pc' # "crashed"
           /\ SemDados(indices_para_coletar[idx].ticker))
            => /\ df' = <<>>
               /\ pc' = "associar"
               /\ UNCHANGED tables
       /\ (pc' \in {"baixar", "sucesso"} /\ ~perdeu')
            => \A k \in 1..total_indices :
                  (pc' = "sucesso" \/ k < idx')
                    => BarrasGuardadas(indices_para_coletar[k].ticker)'
                         = BarrasEsperadas(indices_para_coletar[k].ticker)]_vars

\* a run whose first instrument the provider failed on ended with that
\* instrument stored without bars and the bars of the second one stored
C11_Witness ==
    /\ pc = "sucesso"
    /\ ~perdeu
    /\ crashes = <<>>
    /\ provedor["AAA"].falha
    /\ IdsDoTicker(Indices, "AAA") # {}
    /\ BarrasGuardadas("AAA") = {}
    /\ BarrasGuardadas("BBB") # {}

\* C18: the rate-limit delay of the run.  A delay happens only as the step
\* from the end of one catalog entry (its fetch, ingestion and link done) to
\* the start of the next, one delay per step, and never after the last
\* entry; so the fetch of entry idx begins after exactly idx - 1 delays and a
\* run that ends has made total_indices - 1 delays.
C18_Atrasos ==
    [][/\ (sleeps' # sleeps /\ pc' # "crashed")
            => /\ pc = "sleep"
               /\ pc' = "coletar"
               /\ sleeps' = sleeps + 1
               /\ idx' = idx + 1
       /\ pc' = "sleep" => (pc = "associar" /\ idx' < total_indices)
       /\ pc' \in {"coletar", "baixar", "salvar", "associar"} => sleeps' = idx' - 1
       /\ pc' \in {"fim", "sucesso"}
            => (sleeps' = total_indices - 1 /\ idx' = total_indices)]_vars

\* a run that ended after its one delay, between the first entry and the last
C18_Witness ==
    /\ pc = "sucesso"
    /\ total_indices > 1
    /\ sleeps = total_indices - 1

\* C19: a link that cannot be made is skipped.  The link step of a catalog
\* entry whose ticker has no row in Indices, or whose segment name has no id
\* in segmentos_ids, changes no table, raises nothing and hands over to the
\* delay before the next entry (to the end of the run after the last one).
C19_LinkIgnorado ==
    [][(/\ pc = "associar"
        /\ pc' # "crashed"
        /\ \/ IdsDoTicker(Indices, indices_para_coletar[idx].ticker) = {}
           \/ IdDoSegmento(segmentos_ids, indices_para_coletar[idx].segmento) = 0)
         => /\ UNCHANGED tables
            /\ ~res'.raised
            /\ idx' = idx
            /\ pc' = IF idx < total_indices THEN "sleep" ELSE "fim"]_vars

\* the run is past the link call of its first entry, whose ticker has no row
\* (its creation failed), and no link was stored
C19_Witness ==
    /\ pc = "sleep"
    /\ idx = 1
    /\ res.op = "associar_indice_segmento"
    /\ IdsDoTicker(Indices, indices_para_coletar[1].ticker) = {}
    /\ IndicesSegmentos = EmptyBag
\* ---------------------------------------------------------------------
\* Properties of the analysis service

\* gerar_oportunidades returned an opportunity
Gerou == res.op = "gerar_oportunidades" /\ oportunidades # <<>>

\* a/b of the float x, as a relation between x and y
Proporcao(y, x, a, b) ==
    \/ x.k # "num" /\ y = x
    \/ x.k = "num" /\ y.k = "num" /\ y.n * b * x.d = a * x.n * y.d

\* C12: an opportunity is COMPRA with potential 1.5 times the mean return
\* exactly when the mean return is above 2, VENDA with potential 0.8 times
\* its absolute value exactly when it is below -1, and HOLD with the mean
\* return as potential otherwise; a mean return of exactly 2 or -1 is HOLD.
C12_Limiares ==
    Gerou =>
        LET o == oportunidades[1]
            r == o.metricas.RetornoMedio
            acima == r.k = "inf" \/ (r.k = "num" /\ r.n > 2 * r.d)
            abaixo == r.k = "num" /\ r.n < (0 - 1) * r.d
        IN  /\ o.tipo \in {"COMPRA", "VENDA", "HOLD"}
            /\ o.tipo = "COMPRA" <=> acima
            /\ o.tipo = "VENDA" <=> abaixo
            /\ o.tipo = "COMPRA" => Proporcao(o.potencial_retorno, r, 3, 2)
            /\ o.tipo = "VENDA" => Proporcao(o.potencial_retorno, r, 0 - 4, 5)
            /\ o.tipo = "HOLD" => o.potencial_retorno = r
            /\ (r.k = "num" /\ (r.n = 2 * r.d \/ r.n = (0 - 1) * r.d)) => o.tipo = "HOLD"

\* an opportunity generated from a mean return of exactly 2 is HOLD
C12_Witness ==
    /\ Gerou
    /\ oportunidades[1].metricas.RetornoMedio = Frac(2, 1)
    /\ oportunidades[1].tipo = "HOLD"

\* the other boundary and the two signals are generated as well
C12_WitnessVenda ==
    /\ Gerou
    /\ oportunidades[1].tipo = "VENDA"
    /\ oportunidades[1].metricas.RetornoMedio.k = "num"

C12_WitnessMenosUm ==
    /\ Gerou
    /\ oportunidades[1].metricas.RetornoMedio = Frac(0 - 1, 1)
    /\ oportunidades[1].tipo = "HOLD"

C12_WitnessCompra ==
    /\ Gerou
    /\ oportunidades[1].tipo = "COMPRA"
    /\ oportunidades[1].metricas.RetornoMedio.k = "num"

\* the risk tier and the confidence (in hundredths) of an opportunity
Risco(o) == <<o.nivel_risco, o.confianca>>

\* volatility < c and volatility >= c of an opportunity, on its square
VolAbaixo(o, c) ==
    LET v2 == o.metricas.Variancia IN v2.k = "num" /\ v2.n < c * c * v2.d
VolDesde(o, c) ==
    LET v2 == o.metricas.Variancia IN v2.k = "num" /\ v2.n >= c * c * v2.d

\* C13 as stated: (BAIXO, 0.85) iff v < 2, (MEDIO, 0.70) iff 2 <= v < 5,
\* (ALTO, 0.55) iff v >= 5, and the confidence is one of the three values.
C13_Original ==
    Gerou =>
        LET o == oportunidades[1]
        IN  /\ Risco(o) \in {<<"BAIXO", 85>>, <<"MEDIO", 70>>, <<"ALTO", 55>>}
            /\ Risco(o) = <<"BAIXO", 85>> <=> VolAbaixo(o, 2)
            /\ Risco(o) = <<"MEDIO", 70>> <=> (VolDesde(o, 2) /\ VolAbaixo(o, 5))
            /\ Risco(o) = <<"ALTO", 55>> <=> VolDesde(o, 5)

\* C13 (amended): (BAIXO, 0.85) iff v < 2, (MEDIO, 0.70) iff 2 <= v < 5, and
\* (ALTO, 0.55) iff v is not below 5, that is v >= 5 or v is undefined; the
\* confidence is one of 0.85, 0.70, 0.55, so exactly 2 is MEDIO and exactly
\* 5 is ALTO.
C13_Risco ==
    Gerou =>
        LET o == oportunidades[1]
        IN  /\ Risco(o) \in {<<"BAIXO", 85>>, <<"MEDIO", 70>>, <<"ALTO", 55>>}
            /\ o.confianca >= 0 /\ o.confianca <= 100
            /\ Risco(o) = <<"BAIXO", 85>> <=> VolAbaixo(o, 2)
            /\ Risco(o) = <<"MEDIO", 70>> <=> (VolDesde(o, 2) /\ VolAbaixo(o, 5))
            /\ Risco(o) = <<"ALTO", 55>> <=> ~VolAbaixo(o, 5)

\* an opportunity generated from a volatility of exactly 5 is ALTO
C13_Witness ==
    /\ Gerou
    /\ oportunidades[1].metricas.Variancia = Frac(25, 1)
    /\ Risco(oportunidades[1]) = <<"ALTO", 55>>

\* the other boundary and the lowest tier are generated as well
C13_WitnessDois ==
    /\ Gerou
    /\ oportunidades[1].metricas.Variancia = Frac(4, 1)
    /\ Risco(oportunidades[1]) = <<"MEDIO", 70>>

C13_WitnessBaixo ==
    /\ Gerou
    /\ Risco(oportunidades[1]) = <<"BAIXO", 85>>

\* the last call was one of the analysis service
Analisou == res.op \in {"calcular_metricas_segmento", "gerar_oportunidades"}

\* the price rows of the instruments linked to a segment
BarrasDoSegmento(id_segmento) ==
    {h \in BagToSet(HistoricoPrecos) :
        /\ \E i \in Indices : i.IdIndice = h.IdIndice
        /\ \E l \in BagToSet(IndicesSegmentos) :
              l.IdSegmento = id_segmento /\ l.IdIndice = h.IdIndice}

\* those of them inside the window of a call made on day hoje
BarrasNaJanela(id_segmento, hoje) ==
    {h \in BarrasDoSegmento(id_segmento) : h.DataQuotacao >= hoje - Dias}

\* C14: for a segment without linked instruments, or whose linked
\* instruments have no price row inside the window, calcular_metricas_segmento
\* returns None and gerar_oportunidades returns the empty list, and neither
\* raises; for a segment with metrics gerar_oportunidades returns exactly one
\* opportunity.
C14_SegmentoVazio ==
    Analisou =>
        LET vazio == BarrasNaJanela(res.info[1], res.info[2]) = {}
        IN  /\ ~res.raised
            /\ vazio => (metricas.none /\ oportunidades = <<>>)
            /\ (res.op = "gerar_oportunidades" /\ ~metricas.none)
                  => (Len(oportunidades) = 1 /\ oportunidades[1].metricas = metricas)
            /\ ~vazio => ~metricas.none

\* opportunities were asked for a segment whose instruments have price rows,
\* none of them inside the window, and none was generated
C14_Witness ==
    /\ res.op = "gerar_oportunidades"
    /\ BarrasDoSegmento(res.info[1]) # {}
    /\ BarrasNaJanela(res.info[1], res.info[2]) = {}
    /\ metricas.none
    /\ oportunidades = <<>>

\* opportunities were asked for a segment without instruments in a store
\* that holds price rows
C14_WitnessSemIndices ==
    /\ res.op = "gerar_oportunidades"
    /\ HistoricoPrecos # EmptyBag
    /\ ~ \E l \in BagToSet(IndicesSegmentos) : l.IdSegmento = res.info[1]
    /\ oportunidades = <<>>

C14_WitnessUma ==
    /\ res.op = "gerar_oportunidades"
    /\ Len(oportunidades) = 1

\* the rows the last analysis call read
DadosLidos ==
    obter_dados_segmento(Indices, IndicesSegmentos, HistoricoPrecos, res.info[1], res.info[2])

\* the close of a row and of the row of the same instrument before it (NULL
\* for the first row of an instrument)
FechamentoAnterior(dados, k) ==
    LET antes == {j \in 1..(k - 1) : dados[j].Ticker = dados[k].Ticker}
    IN  IF antes = {} THEN NULL
        ELSE dados[CHOOSE x \in antes : \A y \in antes : y <= x].Fechamento

\* the returns with a day whose prior close is 0 or null left undefined
RetornosSeguros(dados) ==
    [k \in 1..Len(dados) |->
        LET p == FechamentoAnterior(dados, k)
            c == IF dados[k].Fechamento = NULL THEN 0 ELSE dados[k].Fechamento
        IN  IF k = 1 \/ dados[k - 1].Ticker # dados[k].Ticker \/ p = NULL \/ p = 0
            THEN NaN
            ELSE Frac((c - p) * 100, p)]

\* C15: a day whose prior close is 0 or null contributes no return value to
\* RetornoMedio and to the volatility: the aggregates are those of the
\* remaining returns, and none of them is infinite.
C15_DivisaoSegura ==
    (Analisou /\ ~metricas.none) =>
        /\ ~res.raised
        /\ metricas.RetornoMedio.k # "inf"
        /\ metricas.RetornoMedio = mean(RetornosSeguros(DadosLidos))
        /\ metricas.Variancia = var(RetornosSeguros(DadosLidos))

\* the price row of a row read, and the rows of the same instrument dated
\* before it inside the window
BarraDe(linha) ==
    CHOOSE h \in BarrasNaJanela(res.info[1], res.info[2]) :
        /\ h.DataQuotacao = linha.DataQuotacao
        /\ h.IdIndice \in IdsDoTicker(Indices, linha.Ticker)

Anteriores(h) ==
    {a \in BarrasNaJanela(res.info[1], res.info[2]) :
        a.IdIndice = h.IdIndice /\ a.DataQuotacao < h.DataQuotacao}

\* of them, the one with the latest date
Anterior(h) ==
    CHOOSE a \in Anteriores(h) : \A b \in Anteriores(h) : b.DataQuotacao <= a.DataQuotacao

\* (close[t] - close[t-1]) / close[t-1] * 100
RetornoDaBarra(h) ==
    Frac((h.Fechamento - Anterior(h).Fechamento) * 100, Anterior(h).Fechamento)

\* the price rows of the window that have a return, their sum and their mean
ComRetorno == {h \in BarrasNaJanela(res.info[1], res.info[2]) : Anteriores(h) # {}}

RECURSIVE SomaRetornos(_)
SomaRetornos(S) ==
    IF S = {} THEN Frac(0, 1)
    ELSE LET h == CHOOSE x \in S : TRUE
             r == RetornoDaBarra(h)
             t == SomaRetornos(S \ {h})
         IN  Frac(r.n * t.d + t.n * r.d, r.d * t.d)

MediaDosRetornos ==
    IF ComRetorno = {} THEN NaN
    ELSE LET t == SomaRetornos(ComRetorno)
         IN  Frac(t.n, t.d * Cardinality(ComRetorno))

\* every close of the window is a price: not null and not zero
FechamentosDefinidos ==
    \A h \in BarrasNaJanela(res.info[1], res.info[2]) : h.Fechamento # NULL /\ h.Fechamento # 0

\* C16: the return of a price row is (close[t] - close[t-1]) / close[t-1] * 100
\* from the row of the same instrument dated just before it, the first row of
\* each instrument in the window has no return, no return is taken across two
\* instruments, and RetornoMedio is the mean of exactly the defined returns.
\* Stated where the closes of the window are prices, the domain of the formula.
C16_RetornoPorIndice ==
    (Analisou /\ ~metricas.none) =>
        LET dados == DadosLidos
        IN  /\ Len(dados) = Cardinality(BarrasNaJanela(res.info[1], res.info[2]))
            /\ \A k \in 1..Len(dados) :
                  LET h == BarraDe(dados[k])
                  IN  /\ Anteriores(h) = {} => Retornos(dados)[k] = NaN
                      /\ (/\ Anteriores(h) # {}
                          /\ h.Fechamento # NULL
                          /\ Anterior(h).Fechamento # NULL
                          /\ Anterior(h).Fechamento # 0)
                            => Retornos(dados)[k] = RetornoDaBarra(h)
            /\ FechamentosDefinidos => metricas.RetornoMedio = MediaDosRetornos

\* the metrics of a segment whose only instrument closed at 100, 110 and 99:
\* the returns are undefined, 10 and -10 and their mean is 0
C16_Witness ==
    /\ res.op = "calcular_metricas_segmento"
    /\ ~metricas.none
    /\ [k \in 1..Len(DadosLidos) |-> DadosLidos[k].Fechamento] = <<100, 110, 99>>
    /\ Retornos(DadosLidos) = <<NaN, Frac(10, 1), Frac(0 - 10, 1)>>
    /\ metricas.RetornoMedio = Frac(0, 1)

\* the metrics of a segment with two instruments of two price rows each
C16_WitnessDois ==
    /\ res.op = "calcular_metricas_segmento"
    /\ FechamentosDefinidos
    /\ Len(DadosLidos) = 4
    /\ DadosLidos[2].Ticker # DadosLidos[3].Ticker
    /\ metricas.RetornoMedio.k = "num"

\* a step of calcular_metricas_segmento or gerar_oportunidades
PassoDeAnalise == res' # res /\ res'.op \in {"calcular_metricas_segmento", "gerar_oportunidades"}

\* C20 as stated: the analysis operations leave the five tables unchanged, no
\* operation inserts an OportunidadesInvestimento row, and a call on the
\* store state of the call before it returns what that call returned.
C20_Original ==
    [][/\ OportunidadesInvestimento' = OportunidadesInvestimento
       /\ PassoDeAnalise => UNCHANGED <<tables, OportunidadesInvestimento>>
       /\ (PassoDeAnalise /\ res.op = res'.op /\ res.info[1] = res'.info[1]
             /\ UNCHANGED tables)
            => (metricas' = metricas /\ oportunidades' = oportunidades)]_vars

\* C20 (amended): the analysis operations leave the five tables unchanged, no
\* operation inserts an OportunidadesInvestimento row, and a call on the
\* store state of the call before it, made with the same start of the window
\* (the same day), returns what that call returned.
C20_SemEfeitos ==
    [][/\ OportunidadesInvestimento' = OportunidadesInvestimento
       /\ PassoDeAnalise => UNCHANGED <<tables, OportunidadesInvestimento>>
       /\ (PassoDeAnalise /\ res.op = res'.op /\ res.info = res'.info
             /\ UNCHANGED tables)
            => (metricas' = metricas /\ oportunidades' = oportunidades)]_vars

\* opportunities were generated twice on one day from a store that holds
\* price rows of the segment, and no OportunidadesInvestimento row exists
C20_Witness ==
    /\ Gerou
    /\ res.repetida
    /\ OportunidadesInvestimento = {}
    /\ BarrasNaJanela(res.info[1], res.info[2]) # {}

\* the provider answered the request for a ticker with bars that carry no
\* adjusted close under a name the download recognises
SemAjustado(t) ==
    /\ ~provedor[t].falha
    /\ provedor[t].bars # <<>>
    /\ ~TemAdjClose(provedor[t].coluna)

\* the bars of a ticker as the download must emit them when the adjusted
\* close is missing: the adjusted close is the close
BarrasComFechamento(t) ==
    [k \in 1..Len(provedor[t].bars) |->
        [Ticker |-> t, DataQuotacao |-> provedor[t].bars[k].Date,
         Fechamento |-> provedor[t].bars[k].Close,
         FechamentoAjustado |-> provedor[t].bars[k].Close]]

\* the rows of a ticker in the frame the loader holds, on those four columns
LinhasBaixadas(t) ==
    LET K == {k \in 1..Len(df) : df[k].Ticker = t}
        linhas == SelectSeq(df, LAMBDA r : r.Ticker = t)
    IN  [k \in 1..Len(linhas) |->
            [Ticker |-> t, DataQuotacao |-> linhas[k].DataQuotacao,
             Fechamento |-> linhas[k].Fechamento,
             FechamentoAjustado |-> linhas[k].FechamentoAjustado]]

\* the loader's part: the frame returned holds the bars of every such ticker
C17_NoCarregador ==
    res'.op = "baixar_dados_indices"
        => \A t \in TickersInfo : SemAjustado(t) => LinhasBaixadas(t)' = BarrasComFechamento(t)

\* the collector's part: every row it stores has the close as adjusted close
C17_NoColetor ==
    (res'.op = "salvar_historico_precos" /\ ~res'.raised)
        => \A r \in BagToSet(HistoricoPrecos') :
              CopiesIn(r, HistoricoPrecos') > CopiesIn(r, HistoricoPrecos)
                 => r.FechamentoAjustado = r.Fechamento

\* C17: when the bars of the provider carry no adjusted close under a
\* recognised name, the download still emits the bars of the instrument with
\* the adjusted close set to the close: in the frame the loader returns, and
\* in the rows the collector stores.
C17_AjustadoAusente == [][C17_NoCarregador /\ C17_NoColetor]_vars

\* the window of the last analysis call holds price rows of the segment and
\* every instrument has exactly one of them
UmaBarraPorIndice ==
    /\ BarrasNaJanela(res.info[1], res.info[2]) # {}
    /\ ComRetorno = {}

\* C22: when the window holds price rows of the segment but only one of each
\* instrument, the metrics are not None and their RetornoMedio and volatility
\* are undefined, and gerar_oportunidades returns one opportunity that is HOLD
\* with risk ALTO and confidence 0.55; and with a single return in the window
\* the volatility is undefined and the risk is ALTO.
C22_SemRetorno ==
    Analisou =>
        /\ UmaBarraPorIndice =>
              /\ ~metricas.none
              /\ metricas.RetornoMedio = NaN
              /\ metricas.Variancia = NaN
              /\ res.op = "gerar_oportunidades" =>
                    /\ Len(oportunidades) = 1
                    /\ oportunidades[1].tipo = "HOLD"
                    /\ oportunidades[1].nivel_risco = "ALTO"
                    /\ oportunidades[1].confianca = 55
        /\ Cardinality(ComRetorno) = 1 =>
              /\ ~metricas.none
              /\ metricas.Variancia = NaN
              /\ res.op = "gerar_oportunidades" =>
                    /\ Len(oportunidades) = 1
                    /\ oportunidades[1].nivel_risco = "ALTO"
                    /\ oportunidades[1].confianca = 55

\* opportunities were generated for a segment of two instruments with one
\* price row each in the window
C22_Witness ==
    /\ res.op = "gerar_oportunidades"
    /\ UmaBarraPorIndice
    /\ Cardinality(BarrasNaJanela(res.info[1], res.info[2])) = 2
    /\ Len(oportunidades) = 1
    /\ oportunidades[1].tipo = "HOLD"
    /\ oportunidades[1].nivel_risco = "ALTO"

\* opportunities were generated from a single return, a finite one
C22_WitnessUmRetorno ==
    /\ res.op = "gerar_oportunidades"
    /\ Cardinality(ComRetorno) = 1
    /\ metricas.RetornoMedio.k = "num"
    /\ oportunidades[1].nivel_risco = "ALTO"

\* the rows of the key a writer is calling for
LinhasDaChamada(e, ind, seg) ==
    IF e.op = "adicionar_indice" THEN {r \in ind : r.Ticker = e.chave}
    ELSE {r \in seg : r.Nome = e.chave}

\* a writer whose lookup found its key absent stands before its insert while
\* the key has been stored by the other writer
Ultrapassado(w) ==
    /\ escritores[w].pc = "inserir"
    /\ LinhasDaChamada(escritores[w], Indices, SegmentosInvestimento) # {}

\* C21: the lookup and the insert of adicionar_indice and criar_segmento are
\* two steps: when both writers found the same key absent and one has
\* inserted it, the insert of the other never returns the id of the row
\* stored: it adds a second row for the key and returns its new id, or (the
\* store enforcing the unique key) it raises and leaves the tables unchanged.
C21_NaoAtomico ==
    [][\A w \in Escritores :
          (Ultrapassado(w) /\ escritores'[w] # escritores[w]) =>
             LET antes == LinhasDaChamada(escritores[w], Indices, SegmentosInvestimento)
                 depois == LinhasDaChamada(escritores[w], Indices', SegmentosInvestimento')
             IN  /\ escritores'[w].pc = "fim"
                 /\ \/ /\ unico
                       /\ escritores'[w].raised
                       /\ depois = antes
                    \/ /\ ~unico
                       /\ ~escritores'[w].raised
                       /\ Cardinality(depois) = Cardinality(antes) + 1
                       /\ \A r \in antes :
                             escritores'[w].ret #
                               (IF escritores[w].op = "adicionar_indice"
                                THEN r.IdIndice ELSE r.IdSegmento)]_vars

\* both writers called adicionar_indice for the same ticker, both inserted,
\* and the ticker has two rows
C21_Witness ==
    /\ \A w \in Escritores :
          /\ escritores[w].pc = "fim"
          /\ escritores[w].op = "adicionar_indice"
          /\ escritores[w].chave = "AAA"
          /\ ~escritores[w].raised
    /\ escritores[1].ret # escritores[2].ret
    /\ Cardinality(IdsDoTicker(Indices, "AAA")) = 2

\* both writers called criar_segmento for the same name on a store that
\* enforces the unique name: one has its id, the other raised
C21_WitnessUnico ==
    /\ unico
    /\ \A w \in Escritores :
          /\ escritores[w].pc = "fim"
          /\ escritores[w].op = "criar_segmento"
          /\ escritores[w].chave = "S1"
    /\ escritores[1].ret # NULL
    /\ escritores[2].raised
    /\ Cardinality(IdsDoNome(SegmentosInvestimento, "S1")) = 1

\* both lookups found the key absent and both writers stand before the insert
C21_WitnessCorrida ==
    /\ \A w \in Escritores : escritores[w].pc = "inserir"
    /\ escritores[1].op = escritores[2].op
    /\ escritores[1].chave = escritores[2].chave

\* the catalog entry the run is at, its ticker and the id of its segment
TickerAtual == indices_para_coletar[idx].ticker
SegmentoAtual == IdDoSegmento(segmentos_ids, indices_para_coletar[idx].segmento)

\* an instrument is stored; it is linked to a segment
Guardado(ind, t) == IdsDoTicker(ind, t) # {}
Ligado(ind, links, t, id_segmento) ==
    \E l \in BagToSet(links) :
        l.IdIndice \in IdsDoTicker(ind, t) /\ l.IdSegmento = id_segmento

\* a step of the run between the creation of an instrument and its link
PassoDoIndice == pc \in {"coletar", "baixar", "salvar", "associar"} /\ pc' # "crashed"

\* C23: in the run the row of an instrument is stored before the provider is
\* asked, and the link is attempted after the ingestion whatever its outcome.
\* The provider is asked only after a creation that returned, the row stored;
\* a creation that raised stores nothing and hands over to the link step, the
\* provider not asked; the fetch and the ingestion, failing or not, keep the
\* row and hand over to the link step, a failed or empty fetch and an
\* ingestion that raised with no new price row; the link step links a stored
\* instrument unless the call loses its connection, and adds no link for an
\* instrument without row.  A run that ended without losing its connection
\* has every instrument stored and linked, one without data with no price row.
C23_CriaColetaAssocia ==
    [][/\ pc' = "baixar" =>
             /\ pc = "coletar"
             /\ ~res'.raised
             /\ Guardado(Indices', TickerAtual)
             /\ id_indice' \in IdsDoTicker(Indices', TickerAtual)
       /\ (PassoDoIndice /\ pc = "coletar" /\ res'.raised) =>
             /\ Indices' = Indices
             /\ pc' = "associar"
             /\ idx' = idx
       /\ (PassoDoIndice /\ pc \in {"baixar", "salvar"}) =>
             /\ Guardado(Indices, TickerAtual)
             /\ Indices' = Indices
             /\ idx' = idx
             /\ pc' \in {"salvar", "associar"}
             /\ pc = "salvar" => pc' = "associar"
             /\ (pc = "baixar" /\ SemDados(TickerAtual)) =>
                   (pc' = "associar" /\ HistoricoPrecos' = HistoricoPrecos)
             /\ (pc = "salvar" /\ res'.raised) => HistoricoPrecos' = HistoricoPrecos
       /\ (PassoDoIndice /\ pc = "associar") =>
             /\ Indices' = Indices
             /\ Guardado(Indices, TickerAtual) =>
                   \/ Ligado(Indices, IndicesSegmentos', TickerAtual, SegmentoAtual)
                   \/ IndicesSegmentos' = IndicesSegmentos /\ perdeu'
             /\ ~Guardado(Indices, TickerAtual) => IndicesSegmentos' = IndicesSegmentos
       /\ \A l \in BagToSet(IndicesSegmentos') : \E i \in Indices' : i.IdIndice = l.IdIndice
       /\ (pc' = "sucesso" /\ ~perdeu') =>
             \A k \in 1..total_indices :
                LET t == indices_para_coletar[k].ticker
                IN  /\ Guardado(Indices', t)
                    /\ Ligado(Indices', IndicesSegmentos', t,
                              IdDoSegmento(segmentos_ids', indices_para_coletar[k].segmento))
                    /\ SemDados(t) => BarrasGuardadas(t)' = {}]_vars

\* a run ended with an instrument whose fetch failed stored and linked to its
\* segment without a price row
C23_Witness ==
    /\ pc = "sucesso"
    /\ provedor["AAA"].falha
    /\ Guardado(Indices, "AAA")
    /\ Ligado(Indices, IndicesSegmentos, "AAA", IdDoSegmento(segmentos_ids, "S1"))
    /\ BarrasGuardadas("AAA") = {}

\* a run ended with an instrument whose creation failed: no row, and no link
\* to its segment
C23_WitnessSemLinha ==
    /\ pc = "sucesso"
    /\ ~Guardado(Indices, "BBB")
    /\ Guardado(Indices, "AAA")
    /\ \A l \in BagToSet(IndicesSegmentos) :
          l.IdSegmento # IdDoSegmento(segmentos_ids, "S2")

\* a run ended with an instrument whose ingestion raised stored and linked,
\* the bars the provider holds for it not stored
C23_WitnessIngestao ==
    /\ pc = "sucesso"
    /\ crashes = <<>>
    /\ perdeu
    /\ ~SemDados("AAA")
    /\ BarrasEsperadas("AAA") # {}
    /\ BarrasGuardadas("AAA") = {}
    /\ Ligado(Indices, IndicesSegmentos, "AAA", IdDoSegmento(segmentos_ids, "S1"))

====
